---- MODULE Spec2Model ----
(***************************************************************************)
(* A model of lean_digital_twin.py (LEAN Digital Twin, Pro Edition).       *)
(*                                                                         *)
(* Seven state machines share this module:                                 *)
(*   SpecTracker  the worker pool, _track_future, the Tk event queue and   *)
(*                on_close;                                                *)
(*   SpecStore    safe_json_dump / safe_json_load over a file system whose *)
(*                files are character sequences;                           *)
(*   SpecTags     the tag registry, the datasheet library, the file lists  *)
(*                and the active node;                                     *)
(*   SpecTree     the hierarchy tree: buckets, add child, inline details,  *)
(*                rename, delete, serialization, opening a project folder  *)
(*                (SpecTreeCalls: _create_child with any arguments);       *)
(*   SpecFetch    the network handlers: test connection, fetch nodes,      *)
(*                categorize, update data model, inline details            *)
(*                (SpecCategorize: categorizations of fetched nodes);      *)
(*   SpecEditor   the datasheet editor: the tag selector and its panels,   *)
(*                the property preview, the drag copy into the workbook,   *)
(*                and on_close as a whole;                                 *)
(*   SpecPool     the executor's worker slots under tag-property jobs and  *)
(*                the queries they wait for.                               *)
(* Each specification leaves the other machines' variables unchanged.      *)
(***************************************************************************)
EXTENDS Integers, Sequences, FiniteSets, TLC

VARIABLES
    \* ---- tracker machine
    fut,            \* per future: state, kind, outcome, done-callback progress
    workQueue,      \* the executor's queue of pending work items (FIFO)
    afterQueue,     \* callbacks scheduled with master.after(0, ...), in order
    future_tasks,   \* self.future_tasks
    running,        \* what is executing now, and on which thread
    stop_flag,      \* self.stop_flag
    shut,           \* the executor has been shut down
    destroyed,      \* master.destroy() has run (the main loop has ended)
    cbCount,        \* history: how often each future's callback was scheduled
    cbArg,          \* history: the argument bound to the scheduled callback
    accessLog,      \* the (thread, variable, mode) accesses of the latest step
    repo_url,       \* the text of repo_var ("" when unset)
    \* ---- store machine
    fs,             \* the file system: path -> content (characters) or Missing
    dump,           \* the safe_json_dump in progress, or the last one
    loaded,         \* what the latest step read and returned, if a safe_json_load
    storeOp,        \* history: the latest step of the store machine
    \* ---- tag machine
    tag_associations,           \* self.tag_associations, a dict
    tags_file,                  \* the content of the file at self.tags_path
    disk,                       \* the names of the files in self.data_dir
    assigned_files_listbox,     \* the rows of the widget
    unassigned_files_listbox,   \* the rows of the widget
    datasheet_combobox,         \* the widget's values
    tag_selector_combobox,      \* [values, current]: the widget's values and text
    active_node,                \* self.active_node
    tagBudget,                  \* how many more events a run takes
    tagOp,                      \* history: the latest step of the tag machine
    \* ---- tree machine
    tree,           \* self.tree: item id -> [parent, text, tags, open, children]
    last_iid,       \* how many items the Treeview has made (ids are not reused)
    project_root,   \* self.project_root
    selection,      \* self.tree.selection(): the selected item, or NoItem
    project_file,   \* project.json of the project folder
    treeBudget,     \* how many more events a run takes
    treeOp,         \* history: the latest step of the tree machine
    \* ---- fetch machine
    fetched_nodes,  \* self.fetched_nodes: all, equipment, sub_equipment, asset
    prefix_var,     \* the text of prefix_var
    progress,       \* the busy indicator is running
    status_lbl,     \* the text of the status line
    calls,          \* the tracked futures whose callback has not run yet
    cat_results,    \* `results` of each _categorize_nodes so far
    fetchBudget,    \* how many more handler runs a run takes
    fetchOp,        \* history: the latest step of the fetch machine
    \* ---- editor machine
    is_dragging,            \* self.is_dragging
    drag_data,              \* self.drag_data
    drag_source_type,       \* self.drag_source_type
    poll_timers,            \* the pending master.after(100, self._poll_for_drop)
    live_value_button,      \* self.live_value_button.value
    live_unit_button,       \* self.live_unit_button.value
    xl_app,                 \* self.xl_app is an Excel instance (not None)
    current_xl_db,          \* self.current_xl_db: the open workbook, or NoBook
    tag_text_embed,         \* the insertions that make the text of the widget
    properties_text_embed,  \* the insertions that make the text of the widget
    editor_calls,           \* the tracked futures whose callback has not run yet
    editorBudget,           \* how many more events a run takes
    editorOp,               \* history: the latest step of the editor machine
    \* ---- pool machine
    tag_jobs,        \* per tag-property job: the job, its nested query, its callback
    executor_queue,  \* the work items the executor has not started yet (FIFO)
    all_held         \* history: every worker was once held by a waiting job

trackerVars == <<fut, workQueue, afterQueue, future_tasks, running, stop_flag,
                 shut, destroyed, cbCount, cbArg, accessLog, repo_url>>

storeVars == <<fs, dump, loaded, storeOp>>

tagVars == <<tag_associations, tags_file, disk, assigned_files_listbox,
             unassigned_files_listbox, datasheet_combobox, tag_selector_combobox,
             active_node, tagBudget, tagOp>>

treeVars == <<tree, last_iid, project_root, selection, project_file, treeBudget,
              treeOp>>

fetchVars == <<fetched_nodes, prefix_var, progress, status_lbl, calls,
               cat_results, fetchBudget, fetchOp>>

editorVars == <<is_dragging, drag_data, drag_source_type, poll_timers,
                live_value_button, live_unit_button, xl_app, current_xl_db,
                tag_text_embed, properties_text_embed, editor_calls,
                editorBudget, editorOp>>

poolVars == <<tag_jobs, executor_queue, all_held>>

vars == <<trackerVars, storeVars, tagVars, treeVars, fetchVars, editorVars,
          poolVars>>

\* What the steps of one machine leave alone.
notTracker == <<storeVars, tagVars, treeVars, fetchVars, editorVars,
    poolVars>>
notStore == <<trackerVars, tagVars, treeVars, fetchVars, editorVars,
    poolVars>>
notTags == <<trackerVars, storeVars, treeVars, fetchVars, editorVars,
    poolVars>>
notTree == <<trackerVars, storeVars, tagVars, fetchVars, editorVars,
    poolVars>>
notFetch == <<trackerVars, storeVars, tagVars, treeVars, editorVars,
    poolVars>>

None == "None"

(***************************************************************************)
(*                     STRINGS AND JSON DOCUMENTS                          *)
(*                                                                         *)
(* A Python str is a sequence of one-character strings.  A JSON value is   *)
(* tagged with its Python type: [t |-> "str", v |-> chars],                *)
(* [t |-> "list", v |-> <<values>>], [t |-> "dict", v |-> <<[k, v]>>] (a   *)
(* dict keeps its insertion order, as Python's does) and                   *)
(* [t |-> "bool", v |-> TRUE/FALSE].                                       *)
(***************************************************************************)

Str(chars) == [t |-> "str", v |-> chars]
List(items) == [t |-> "list", v |-> items]
Dict(pairs) == [t |-> "dict", v |-> pairs]
Bool(b) == [t |-> "bool", v |-> b]
Pair(k, v) == [k |-> k, v |-> v]

QUOTE == "\""
BACKSLASH == "\\"
NEWLINE == "\n"

\* indent=2 of json.dump(data, f, indent=2), line 64
json_indent == 2

Spaces(n) == [i \in 1..n |-> " "]

\* A py_encode_basestring_ascii that escapes nothing.
py_encode_char_raw(c) == <<c>>

\* json.encoder.py_encode_basestring_ascii, one character (ensure_ascii is
\* the default of json.dump): the quote, the backslash and the newline are
\* escaped, every other character of the model's alphabet is written as is.
py_encode_char(c) ==
    CASE c = QUOTE -> <<BACKSLASH, QUOTE>>
      [] c = BACKSLASH -> <<BACKSLASH, BACKSLASH>>
      [] c = NEWLINE -> <<BACKSLASH, "n">>
      [] OTHER -> <<c>>

RECURSIVE EncodeChars(_)
EncodeChars(chars) ==
    IF chars = <<>> THEN <<>>
    ELSE py_encode_char(Head(chars)) \o EncodeChars(Tail(chars))

py_encode_string(chars) == <<QUOTE>> \o EncodeChars(chars) \o <<QUOTE>>

\* json.dumps(value, indent=2) as the text written at nesting depth `level`:
\* json.encoder._make_iterencode (_iterencode_dict, _iterencode_list).
RECURSIVE json_encode(_, _)
RECURSIVE EncodeItems(_, _, _)
EncodeItems(val, i, level) ==
    LET n == Len(val.v)
        item == IF val.t = "dict"
                THEN py_encode_string(val.v[i].k) \o <<":", " ">>
                         \o json_encode(val.v[i].v, level + 1)
                ELSE json_encode(val.v[i], level + 1)
    IN  IF i > n THEN <<NEWLINE>> \o Spaces(json_indent * level)
        ELSE (IF i = 1 THEN <<>> ELSE <<",">>)
                 \o <<NEWLINE>> \o Spaces(json_indent * (level + 1))
                 \o item \o EncodeItems(val, i + 1, level)

json_encode(val, level) ==
    CASE val.t = "str" -> py_encode_string(val.v)
      [] val.t = "bool" -> IF val.v THEN <<"t", "r", "u", "e">>
                           ELSE <<"f", "a", "l", "s", "e">>
      [] val.t = "list" -> IF val.v = <<>> THEN <<"[", "]">>
                           ELSE <<"[">> \o EncodeItems(val, 1, level) \o <<"]">>
      [] val.t = "dict" -> IF val.v = <<>> THEN <<"{", "}">>
                           ELSE <<"{">> \o EncodeItems(val, 1, level) \o <<"}">>

json_dumps(val) == json_encode(val, 0)

(* ---------------- json.loads: json.decoder / json.scanner -------------- *)

Fail == [ok |-> FALSE, val |-> None, next |-> 0]
Ok(val, next) == [ok |-> TRUE, val |-> val, next |-> next]

At(s, i) == IF i >= 1 /\ i <= Len(s) THEN s[i] ELSE "EOF"

\* json.decoder.WHITESPACE
RECURSIVE SkipWs(_, _)
SkipWs(s, i) ==
    IF At(s, i) \in {" ", NEWLINE, "\t", "\r"} THEN SkipWs(s, i + 1) ELSE i

\* json.decoder.py_scanstring, from the character after the opening quote.
RECURSIVE scanstring(_, _, _)
scanstring(s, i, acc) ==
    LET c == At(s, i) IN
    CASE c = "EOF" -> Fail
      [] c = QUOTE -> Ok(Str(acc), i + 1)
      [] c = NEWLINE -> Fail
      [] c = BACKSLASH ->
            LET e == At(s, i + 1) IN
            CASE e = QUOTE -> scanstring(s, i + 2, Append(acc, QUOTE))
              [] e = BACKSLASH -> scanstring(s, i + 2, Append(acc, BACKSLASH))
              [] e = "/" -> scanstring(s, i + 2, Append(acc, "/"))
              [] e = "n" -> scanstring(s, i + 2, Append(acc, NEWLINE))
              [] OTHER -> Fail
      [] OTHER -> scanstring(s, i + 1, Append(acc, c))

Matches(s, i, word) ==
    /\ i + Len(word) - 1 <= Len(s)
    /\ \A j \in 1..Len(word) : s[i + j - 1] = word[j]

\* json.scanner.py_make_scanner._scan_once, JSONObject and JSONArray.  In a
\* JSONObject a repeated key keeps its first position and its last value,
\* as dict(pairs) does.
RECURSIVE scan_once(_, _)
RECURSIVE JSONArray(_, _, _)
RECURSIVE JSONObject(_, _, _)

PutPair(pairs, k, v) ==
    IF \E j \in DOMAIN pairs : pairs[j].k = k
    THEN [j \in DOMAIN pairs |-> IF pairs[j].k = k THEN Pair(k, v) ELSE pairs[j]]
    ELSE Append(pairs, Pair(k, v))

JSONArray(s, i, acc) ==
    LET r == scan_once(s, i) IN
    IF ~r.ok THEN Fail
    ELSE LET j == SkipWs(s, r.next) IN
         CASE At(s, j) = "]" -> Ok(List(Append(acc, r.val)), j + 1)
           [] At(s, j) = "," -> JSONArray(s, SkipWs(s, j + 1), Append(acc, r.val))
           [] OTHER -> Fail

JSONObject(s, i, acc) ==
    IF At(s, i) # QUOTE THEN Fail
    ELSE LET k == scanstring(s, i + 1, <<>>) IN
         IF ~k.ok THEN Fail
         ELSE LET c == SkipWs(s, k.next) IN
              IF At(s, c) # ":" THEN Fail
              ELSE LET r == scan_once(s, SkipWs(s, c + 1)) IN
                   IF ~r.ok THEN Fail
                   ELSE LET j == SkipWs(s, r.next)
                            acc2 == PutPair(acc, k.val.v, r.val)
                        IN  CASE At(s, j) = "}" -> Ok(Dict(acc2), j + 1)
                              [] At(s, j) = "," ->
                                    JSONObject(s, SkipWs(s, j + 1), acc2)
                              [] OTHER -> Fail

scan_once(s, i) ==
    LET c == At(s, i) IN
    CASE c = QUOTE -> scanstring(s, i + 1, <<>>)
      [] c = "{" -> LET j == SkipWs(s, i + 1) IN
                    IF At(s, j) = "}" THEN Ok(Dict(<<>>), j + 1)
                    ELSE JSONObject(s, j, <<>>)
      [] c = "[" -> LET j == SkipWs(s, i + 1) IN
                    IF At(s, j) = "]" THEN Ok(List(<<>>), j + 1)
                    ELSE JSONArray(s, j, <<>>)
      [] c = "t" /\ Matches(s, i, <<"t", "r", "u", "e">>) -> Ok(Bool(TRUE), i + 4)
      [] c = "f" /\ Matches(s, i, <<"f", "a", "l", "s", "e">>) -> Ok(Bool(FALSE), i + 5)
      [] OTHER -> Fail

\* json.loads(text): JSONDecoder.decode; raises (ok = FALSE) on a malformed
\* document and on extra data after the value.
json_loads(s) ==
    LET r == scan_once(s, SkipWs(s, 1)) IN
    IF ~r.ok THEN Fail
    ELSE IF SkipWs(s, r.next) <= Len(s) THEN Fail
    ELSE r


(* ------------------------- Python str methods -------------------------- *)

\* The characters of the model, in code point order.
Alphabet ==
    <<" ", "\"", "#", ".", "/", "0", "1", "2", "3", "4", "5", "6", "7", "8", "9",
      "A", "B", "C", "D", "E", "F", "G", "H", "I", "J", "K", "L", "M",
      "N", "O", "P", "Q", "R", "S", "T", "U", "V", "W", "X", "Y", "Z",
      "\\", "_",
      "a", "b", "c", "d", "e", "f", "g", "h", "i", "j", "k", "l", "m",
      "n", "o", "p", "q", "r", "s", "t", "u", "v", "w", "x", "y", "z">>

\* ord(c), as the place of c in the alphabet
OrdTable ==
    [c \in {Alphabet[i] : i \in DOMAIN Alphabet} |->
        CHOOSE i \in DOMAIN Alphabet : Alphabet[i] = c]

Ord(c) == OrdTable[c]

UpperA == Ord("A")
LowerA == Ord("a")

\* str.lower(), one character
LowerTable ==
    [c \in DOMAIN OrdTable |->
        IF OrdTable[c] >= UpperA /\ OrdTable[c] < UpperA + 26
        THEN Alphabet[OrdTable[c] - UpperA + LowerA] ELSE c]

LowerChar(c) == LowerTable[c]

py_lower(a) == [i \in DOMAIN a |-> LowerChar(a[i])]

\* a < b for str: the first differing character decides, a proper prefix
\* is smaller.
StrLess(a, b) ==
    \/ \E i \in DOMAIN a \cap DOMAIN b :
          /\ \A j \in 1..(i - 1) : a[j] = b[j]
          /\ Ord(a[i]) < Ord(b[i])
    \/ Len(a) < Len(b) /\ \A j \in DOMAIN a : a[j] = b[j]

\* sorted(strings) of a collection without repetitions
RECURSIVE py_sorted(_)
py_sorted(S) ==
    IF S = {} THEN <<>>
    ELSE LET m == CHOOSE x \in S : \A y \in S \ {x} : StrLess(x, y)
         IN  <<m>> \o py_sorted(S \ {m})

py_endswith(a, suffix) ==
    /\ Len(a) >= Len(suffix)
    /\ SubSeq(a, Len(a) - Len(suffix) + 1, Len(a)) = suffix

\* str.strip() of the blanks of the model
RECURSIVE py_lstrip(_)
py_lstrip(a) == IF a # <<>> /\ Head(a) = " " THEN py_lstrip(Tail(a)) ELSE a

RECURSIVE py_rstrip(_)
py_rstrip(a) ==
    IF a # <<>> /\ a[Len(a)] = " " THEN py_rstrip(SubSeq(a, 1, Len(a) - 1)) ELSE a

py_strip(a) == py_rstrip(py_lstrip(a))

\* os.path.splitext(name)[1] for a name without directory separators: the
\* text from the last dot on, unless only dots precede that dot.
LastDot(a) ==
    IF \E i \in DOMAIN a : a[i] = "."
    THEN CHOOSE i \in DOMAIN a : a[i] = "." /\ \A j \in DOMAIN a : a[j] = "." => j <= i
    ELSE 0

\* An extension taken without its dot.
splitext_ext_without_dot(a) ==
    IF LastDot(a) = 0 THEN <<>> ELSE SubSeq(a, LastDot(a) + 1, Len(a))

splitext_ext(a) ==
    LET d == LastDot(a) IN
    IF d = 0 \/ (\A j \in 1..(d - 1) : a[j] = ".") THEN <<>>
    ELSE SubSeq(a, d, Len(a))

SeqToSet(q) == {q[i] : i \in DOMAIN q}

Contains(q, x) == \E i \in DOMAIN q : q[i] = x

\* list.remove(x): the first occurrence goes
ListRemove(q, x) ==
    IF ~Contains(q, x) THEN q
    ELSE LET i == CHOOSE k \in DOMAIN q : q[k] = x /\ \A j \in 1..(k - 1) : q[j] # x
         IN  SubSeq(q, 1, i - 1) \o SubSeq(q, i + 1, Len(q))

(* -------------------------- dict operations ---------------------------- *)

Keys(d) == [i \in DOMAIN d.v |-> d.v[i].k]

HasKey(d, k) == \E i \in DOMAIN d.v : d.v[i].k = k

\* d[k]
Get(d, k) == d.v[CHOOSE i \in DOMAIN d.v : d.v[i].k = k].v

\* d.get(k, default)
GetOr(d, k, default) == IF HasKey(d, k) THEN Get(d, k) ELSE default

\* d[k] = v: a new key goes last, a known key keeps its place
Put(d, k, v) == Dict(PutPair(d.v, k, v))


(***************************************************************************)
(*                         THE TRACKER MACHINE                             *)
(***************************************************************************)

\* Bound: how many futures one run creates.
MaxFutures == 2

\* ThreadPoolExecutor(max_workers=4)
max_workers == 4

FutIds == 1..MaxFutures

\* The kinds of work the application submits:
\*   "query"   _run_sparql_query_bg.run: url and query captured by the caller
\*   "test"    _test_connection.job: catches its exception and returns it
\*   "tester"  _open_query_tester.run_query.job: reads repo_var itself,
\*             catches its exception and returns it
\*   "tagjob"  _display_tag_info_in_editor_view.job: reads prefix_var, calls
\*             _run_sparql_query_bg (a nested "query") and waits for it
\*   "nested"  the query a tagjob submits from its worker thread
UIKinds == {"query", "test", "tester", "tagjob"}

FreeFut == [st |-> "free", kind |-> None, out |-> None, cb |-> "none",
            pc |-> None, child |-> 0, alive |-> TRUE]

\* What a finished piece of work left in its future.
Returned(v) == [how |-> "returned", val |-> v]
Raised(e) == [how |-> "raised", val |-> e]
Cancelled == [how |-> "cancelled", val |-> "CancelledError"]

\* The outcomes the body of each kind of work can have.
WorkOutcomes(kind) ==
    CASE kind \in {"query", "nested"} ->
             {Returned("bindings"), Raised("Exception")}
      [] kind \in {"test", "tester"} ->
             {Returned("data"), Returned("Exception")}
      [] OTHER -> {Returned("props")}

\* future.result() inside done(): the value, or the exception it raises.
\* CancelledError is a subclass of concurrent.futures' Error(Exception).
FutureResult(out) ==
    IF out.how = "returned" THEN [raises |-> FALSE, val |-> out.val]
    ELSE [raises |-> TRUE, val |-> out.val]

\* A done() without its except clauses: the exception leaves done().
TrackDoneResNoExcept(out) ==
    IF FutureResult(out).raises THEN [caught |-> FALSE, res |-> None]
    ELSE [caught |-> TRUE, res |-> FutureResult(out).val]

\* _track_future.done, lines 1136-1141: try: res = future.result()
\* except TimeoutError / except Exception: res = e.
TrackDoneRes(out) ==
    [caught |-> TRUE, res |-> FutureResult(out).val]

UIThread == "ui"
WorkerThread == "worker"

Exec(th, what, f) == [thread |-> th, what |-> what, f |-> f]

UIIdle == \A r \in running : r.thread # UIThread

BusyWorkers == Cardinality({r \in running : r.thread = WorkerThread})

Access(th, var, mode) == [thread |-> th, var |-> var, mode |-> mode]

\* A done() that calls callback(res) where it stands.
after_0_direct(items, th, base) ==
    /\ afterQueue' = afterQueue
    /\ running' = base \cup {Exec(th, "callback", items[i].f) : i \in DOMAIN items}

\* self.master.after(0, lambda: callback(res)), line 1142: the callback is
\* appended to the Tk event queue of the main loop; `base` is what keeps
\* executing after the call.
after_0(items, th, base) ==
    /\ afterQueue' = afterQueue \o items
    /\ running' = base

\* done(_) of _track_future, lines 1134-1142, run on thread th for each of
\* `jobs` (a sequence of [f, out]): discard from future_tasks, take the
\* result, schedule the callback.  `alive` says whether the main loop is
\* still running: when it has ended, master.after raises inside done (the
\* call cannot be marshalled to the interpreter thread) and nothing is
\* scheduled; concurrent.futures logs a done-callback's exception and goes on.
TrackDone(jobs, th, base, alive) ==
    LET sel == SelectSeq(jobs, LAMBDA j : TrackDoneRes(j.out).caught /\ alive)
        items == [i \in DOMAIN sel |->
                    [f |-> sel[i].f, res |-> TrackDoneRes(sel[i].out).res]]
        hit(f) == \E i \in DOMAIN items : items[i].f = f
    IN  /\ future_tasks' = future_tasks \ {jobs[i].f : i \in DOMAIN jobs}
        /\ accessLog' =
              (IF jobs # <<>> THEN {Access(th, "future_tasks", "write")} ELSE {})
        /\ after_0(items, th, base)
        /\ cbCount' = [f \in FutIds |-> IF hit(f) THEN cbCount[f] + 1 ELSE cbCount[f]]
        /\ cbArg' = [f \in FutIds |->
              IF hit(f) THEN (CHOOSE it \in {items[i] : i \in DOMAIN items} : it.f = f).res
              ELSE cbArg[f]]

TrackerStart(u) ==
    /\ fut = [f \in FutIds |-> FreeFut]
    /\ workQueue = <<>>
    /\ afterQueue = <<>>
    /\ future_tasks = {}
    /\ running = {}
    /\ stop_flag = FALSE
    /\ shut = FALSE
    /\ destroyed = FALSE
    /\ cbCount = [f \in FutIds |-> 0]
    /\ cbArg = [f \in FutIds |-> None]
    /\ accessLog = {}
    /\ repo_url = u


NextFree == CHOOSE f \in FutIds : fut[f].st = "free" /\
                \A g \in FutIds : fut[g].st = "free" => f <= g

\* A UI handler that starts background work, up to executor.submit:
\* _test_connection (1092-1109), _run_sparql_query_bg called from a handler
\* (1120-1130), _display_tag_info_in_editor_view (1646), run_query (2049).
\* The handlers that go through _run_sparql_query_bg, and _test_connection,
\* read repo_var on the UI thread and stop when it is empty.
UISubmit(kind) ==
    /\ UNCHANGED notTracker
    /\ UIIdle /\ ~destroyed
    /\ \E f \in FutIds : fut[f].st = "free"
    /\ kind \in {"query", "test"} => repo_url # ""
    /\ LET f == NextFree IN
        /\ fut' = [fut EXCEPT ![f] = [FreeFut EXCEPT !.st = "pending", !.kind = kind]]
        /\ workQueue' = Append(workQueue, f)
        /\ running' = running \cup {Exec(UIThread, "handler", f)}
    /\ accessLog' =
          (IF kind \in {"query", "test"}
           THEN {Access(UIThread, "repo_var", "read")} ELSE {})
    /\ UNCHANGED <<afterQueue, future_tasks, stop_flag, shut, destroyed,
                   cbCount, cbArg, repo_url>>

\* _track_future(future, callback), lines 1132-1143, called by the handler
\* that submitted the work.  add_done_callback runs done at once, on the
\* calling thread, when the future is already finished.
UITrack(f) ==
    /\ UNCHANGED notTracker
    /\ Exec(UIThread, "handler", f) \in running
    /\ IF fut[f].st \in {"finished", "cancelled"}
       THEN /\ TrackDone(<<[f |-> f, out |-> fut[f].out]>>, UIThread,
                         running \ {Exec(UIThread, "handler", f)}, ~destroyed)
            /\ fut' = [fut EXCEPT ![f].cb = "done", ![f].alive = ~destroyed]
            /\ UNCHANGED <<workQueue, stop_flag, shut, destroyed, repo_url>>
       ELSE /\ future_tasks' = future_tasks \cup {f}
            /\ accessLog' = {Access(UIThread, "future_tasks", "write")}
            /\ fut' = [fut EXCEPT ![f].cb = "registered"]
            /\ running' = running \ {Exec(UIThread, "handler", f)}
            /\ UNCHANGED <<workQueue, afterQueue, stop_flag, shut, destroyed,
                           cbCount, cbArg, repo_url>>

\* A pool thread takes the oldest pending work item and starts its body.
\* The bodies of tester and tagjob begin by reading a Tk variable:
\* repo_var (line 2043), prefix_var (line 1628).
WorkerStart(f) ==
    /\ UNCHANGED notTracker
    /\ workQueue # <<>> /\ f = Head(workQueue)
    /\ BusyWorkers < max_workers
    /\ fut[f].st = "pending"
    /\ workQueue' = Tail(workQueue)
    /\ fut' = [fut EXCEPT ![f].st = "running",
                          ![f].pc = IF fut[f].kind = "tagjob" THEN "loop" ELSE "body"]
    /\ running' = running \cup {Exec(WorkerThread, "work", f)}
    /\ accessLog' =
          (CASE fut[f].kind = "tester" -> {Access(WorkerThread, "repo_var", "read")}
             [] fut[f].kind = "tagjob" -> {Access(WorkerThread, "prefix_var", "read")}
             [] OTHER -> {})
    /\ UNCHANGED <<afterQueue, future_tasks, stop_flag, shut, destroyed,
                   cbCount, cbArg, repo_url>>

\* The work item ends: the future takes its result or exception, and the
\* worker goes on to the done-callbacks registered so far.
Finish(f, out) ==
    /\ fut' = [fut EXCEPT ![f].st = "finished", ![f].out = out, ![f].pc = None,
                          ![f].cb = IF fut[f].cb = "registered" THEN "invoking"
                                    ELSE fut[f].cb]
    /\ running' = (running \ {Exec(WorkerThread, "work", f)}) \cup
                     (IF fut[f].cb = "registered"
                      THEN {Exec(WorkerThread, "done", f)} ELSE {})

WorkerFinish(f, out) ==
    /\ UNCHANGED notTracker
    /\ fut[f].st = "running" /\ fut[f].pc = "body"
    /\ out \in WorkOutcomes(fut[f].kind)
    /\ Finish(f, out)
    /\ accessLog' = {}
    /\ UNCHANGED <<workQueue, afterQueue, future_tasks, stop_flag, shut,
                   destroyed, cbCount, cbArg, repo_url>>

\* The worker runs done(_) of _track_future for the future it finished.
WorkerDone(f) ==
    /\ UNCHANGED notTracker
    /\ fut[f].cb = "invoking"
    /\ TrackDone(<<[f |-> f, out |-> fut[f].out]>>, WorkerThread,
                 running \ {Exec(WorkerThread, "done", f)}, ~destroyed)
    /\ fut' = [fut EXCEPT ![f].cb = "done", ![f].alive = ~destroyed]
    /\ UNCHANGED <<workQueue, stop_flag, shut, destroyed, repo_url>>

\* job() of _display_tag_info_in_editor_view, lines 1629-1639, for one node:
\* self._run_sparql_query_bg(q) on the worker thread reads repo_var, raises
\* when it is empty, and submits the nested query to the same executor
\* (which raises after shutdown); any exception skips the node.
TagJobSubmit(f) ==
    /\ UNCHANGED notTracker
    /\ fut[f].st = "running" /\ fut[f].pc = "loop"
    /\ accessLog' = {Access(WorkerThread, "repo_var", "read")}
    /\ IF repo_url = "" \/ shut \/ ~\E g \in FutIds : fut[g].st = "free"
       THEN /\ fut' = [fut EXCEPT ![f].pc = "return"]
            /\ UNCHANGED workQueue
       ELSE LET g == NextFree IN
            /\ fut' = [fut EXCEPT ![f].pc = "wait", ![f].child = g,
                          ![g] = [FreeFut EXCEPT !.st = "pending", !.kind = "nested"]]
            /\ workQueue' = Append(workQueue, g)
    /\ UNCHANGED <<afterQueue, future_tasks, running, stop_flag, shut,
                   destroyed, cbCount, cbArg, repo_url>>

\* .result(timeout=25), line 1637: the nested result, its exception, its
\* cancellation or the timeout; every exception is swallowed (continue).
TagJobWait(f) ==
    /\ UNCHANGED notTracker
    /\ fut[f].st = "running" /\ fut[f].pc = "wait"
    /\ fut' = [fut EXCEPT ![f].pc = "return"]
    /\ accessLog' = {}
    /\ UNCHANGED <<workQueue, afterQueue, future_tasks, running, stop_flag,
                   shut, destroyed, cbCount, cbArg, repo_url>>

\* return sorted(all_props), line 1645.
TagJobReturn(f) ==
    /\ UNCHANGED notTracker
    /\ fut[f].st = "running" /\ fut[f].pc = "return"
    /\ Finish(f, Returned("props"))
    /\ accessLog' = {}
    /\ UNCHANGED <<workQueue, afterQueue, future_tasks, stop_flag, shut,
                   destroyed, cbCount, cbArg, repo_url>>

\* The Tk main loop takes the next scheduled callback when the UI thread
\* is idle and runs it.
UIBeginCallback ==
    /\ UNCHANGED notTracker
    /\ UIIdle /\ ~destroyed
    /\ afterQueue # <<>>
    /\ running' = running \cup {Exec(UIThread, "callback", Head(afterQueue).f)}
    /\ afterQueue' = Tail(afterQueue)
    /\ accessLog' = {}
    /\ UNCHANGED <<fut, workQueue, future_tasks, stop_flag, shut, destroyed,
                   cbCount, cbArg, repo_url>>

UIEndCallback(f) ==
    /\ UNCHANGED notTracker
    /\ Exec(UIThread, "callback", f) \in running
    /\ running' = running \ {Exec(UIThread, "callback", f)}
    /\ accessLog' = {}
    /\ UNCHANGED <<fut, workQueue, afterQueue, future_tasks, stop_flag, shut,
                   destroyed, cbCount, cbArg, repo_url>>

\* The user edits the repository URL entry.
SetRepoUrl(u) ==
    /\ UNCHANGED notTracker
    /\ UIIdle /\ ~destroyed
    /\ u # repo_url
    /\ repo_url' = u
    /\ accessLog' = {Access(UIThread, "repo_var", "write")}
    /\ UNCHANGED <<fut, workQueue, afterQueue, future_tasks, running, stop_flag,
                   shut, destroyed, cbCount, cbArg>>

\* The finally block of on_close, lines 268-271: stop_flag, then
\* executor.shutdown(wait=False, cancel_futures=True), which cancels every
\* pending work item on the calling thread (each cancel runs the future's
\* done-callbacks there and then), then master.destroy().
shutdown_and_destroy ==
    /\ stop_flag' = TRUE
    /\ shut' = TRUE
    /\ destroyed' = TRUE
    /\ LET tracked == SelectSeq(workQueue, LAMBDA f : fut[f].cb = "registered")
       IN  /\ fut' = [f \in FutIds |->
                  IF \E i \in DOMAIN workQueue : workQueue[i] = f
                  THEN [fut[f] EXCEPT !.st = "cancelled", !.out = Cancelled,
                                      !.cb = IF fut[f].cb = "registered" THEN "done"
                                             ELSE fut[f].cb]
                  ELSE fut[f]]
           /\ TrackDone([i \in DOMAIN tracked |-> [f |-> tracked[i], out |-> Cancelled]],
                        UIThread, running, TRUE)
    /\ workQueue' = <<>>


(***************************************************************************)
(*                          THE STORE MACHINE                              *)
(*                                                                         *)
(* safe_json_dump as the steps the operating system can interleave with a  *)
(* reader: open(tmp, "w"), the buffered writes of json.dump, the close and *)
(* os.replace; safe_json_load as one read of the whole file.               *)
(***************************************************************************)

\* Bound: the longest content a truncation leaves.
MaxTruncate == 12

\* Bound: how many characters one write of the buffered file puts on disk.
ChunkLen == 8

Missing == <<"<no such file>">>

c_nodes == <<"n", "o", "d", "e", "s">>
c_datasheets == <<"d", "a", "t", "a", "s", "h", "e", "e", "t", "s">>

\* self.tag_associations[tag] = {'nodes': [...], 'datasheets': [...]}
TagEntry(tag, nodes, datasheets) ==
    Pair(tag, Dict(<<Pair(c_nodes, List(nodes)), Pair(c_datasheets, List(datasheets))>>))

\* The documents the store machine dumps: tag registries, one of them with a
\* quote and a backslash in its names.
StoreDocs ==
    { Dict(<<>>),
      Dict(<<TagEntry(<<"P", "1">>, <<Str(<<"n", "1">>)>>, <<>>)>>),
      Dict(<<TagEntry(<<"a", QUOTE>>, <<Str(<<BACKSLASH>>), Str(<<"n", "2">>)>>,
                      <<Str(<<"f", ".", "x", "l", "s">>)>>),
             TagEntry(<<"b">>, <<>>, <<>>)>>) }

\* The defaults callers pass: {} (lines 212, 1985, 1991) and the settings
\* default of line 201, abridged to one key.
StoreDefaults ==
    { Dict(<<>>), Dict(<<Pair(<<"t", "h", "e", "m", "e">>, Str(<<"l", "i", "g", "h", "t">>))>>) }

\* The file the machine dumps to and loads from (TAGS_PATH, line 40).
store_path == <<"t", "a", "g", "s", ".", "j", "s", "o", "n">>

\* A dump that writes the target in place.
tmp_path_in_place(path) == path

\* tmp = path + ".tmp", line 62
tmp_path(path) == path \o <<".", "t", "m", "p">>

StorePaths == {store_path, tmp_path(store_path)}

DumpText == json_dumps(dump.data)

\* A safe_json_load without its try/except: the exception leaves the call.
safe_json_load_unguarded(path, default) ==
    IF fs[path] = Missing THEN [raised |-> TRUE, val |-> default]
    ELSE LET r == json_loads(fs[path]) IN
         IF r.ok THEN [raised |-> FALSE, val |-> r.val]
         ELSE [raised |-> TRUE, val |-> default]

\* The body of safe_json_load, lines 55-59, on the content of the file:
\* open() raises on a missing file and json.load on a malformed one; both
\* are caught and give default.
load_or_default(content, default) ==
    IF content = Missing THEN [raised |-> FALSE, val |-> default]
    ELSE LET r == json_loads(content) IN
         IF r.ok THEN [raised |-> FALSE, val |-> r.val]
         ELSE [raised |-> FALSE, val |-> default]

\* safe_json_load(path, default), lines 54-59
safe_json_load(path, default) == load_or_default(fs[path], default)

NoLoad == [done |-> FALSE, during |-> FALSE, content |-> Missing,
           default |-> Dict(<<>>), raised |-> FALSE, val |-> Dict(<<>>)]

StoreStart(c) ==
    /\ fs = [p \in StorePaths |-> IF p = store_path THEN c ELSE Missing]
    /\ dump = [pc |-> "idle", data |-> Dict(<<>>), pos |-> 0, old |-> Missing]
    /\ loaded = NoLoad
    /\ storeOp = "init"


\* safe_json_dump, line 63: open(tmp, "w") creates or truncates tmp.
DumpOpen(data) ==
    /\ UNCHANGED notStore
    /\ dump.pc = "idle"
    /\ dump' = [pc |-> "writing", data |-> data, pos |-> 0, old |-> fs[store_path]]
    /\ fs' = [fs EXCEPT ![tmp_path(store_path)] = <<>>]
    /\ storeOp' = "open"
    /\ loaded' = NoLoad

\* line 64: json.dump writes the text through the file's buffer, which
\* reaches the disk a chunk at a time.
DumpWrite ==
    /\ UNCHANGED notStore
    /\ dump.pc = "writing"
    /\ dump.pos < Len(DumpText)
    /\ LET n == IF dump.pos + ChunkLen <= Len(DumpText) THEN dump.pos + ChunkLen
                ELSE Len(DumpText)
       IN  /\ fs' = [fs EXCEPT ![tmp_path(store_path)] =
                        @ \o SubSeq(DumpText, dump.pos + 1, n)]
           /\ dump' = [dump EXCEPT !.pos = n]
    /\ storeOp' = "write"
    /\ loaded' = NoLoad

\* The dump fails part-way: json.dump raises (a value it cannot serialize,
\* a full disk) or os.replace does; the with block closes tmp as it is and
\* the exception leaves safe_json_dump.
DumpFail ==
    /\ UNCHANGED notStore
    /\ dump.pc = "writing"
    /\ dump' = [dump EXCEPT !.pc = "idle"]
    /\ storeOp' = "fail"
    /\ loaded' = NoLoad
    /\ UNCHANGED fs

\* line 65: os.replace(tmp, path), one step of the file system.
DumpReplace ==
    /\ UNCHANGED notStore
    /\ dump.pc = "writing"
    /\ dump.pos = Len(DumpText)
    /\ fs' = [p \in StorePaths |->
                IF p = store_path THEN fs[tmp_path(store_path)]
                ELSE IF p = tmp_path(store_path) THEN Missing ELSE fs[p]]
    /\ dump' = [dump EXCEPT !.pc = "idle"]
    /\ storeOp' = "replace"
    /\ loaded' = NoLoad

\* A reader calls safe_json_load(path, default) at any moment, also while
\* a dump is in progress.
SafeLoad(default) ==
    /\ UNCHANGED notStore
    /\ LET r == safe_json_load(store_path, default) IN
       loaded' = [done |-> TRUE, during |-> dump.pc = "writing",
                  content |-> fs[store_path], default |-> default,
                  raised |-> r.raised, val |-> r.val]
    /\ storeOp' = "load"
    /\ UNCHANGED <<fs, dump>>

\* Outside the application the file is cut short (a document left malformed
\* by another program); not while a dump is in progress.
Truncate(k) ==
    /\ UNCHANGED notStore
    /\ dump.pc = "idle"
    /\ fs[store_path] # Missing
    /\ k < Len(fs[store_path])
    /\ fs' = [fs EXCEPT ![store_path] = SubSeq(@, 1, k)]
    /\ storeOp' = "truncate"
    /\ loaded' = NoLoad
    /\ UNCHANGED dump

StoreNext ==
    \/ \E d \in StoreDocs : DumpOpen(d)
    \/ DumpWrite
    \/ DumpFail
    \/ DumpReplace
    \/ \E d \in StoreDefaults : SafeLoad(d)
    \/ \E k \in 0..MaxTruncate : Truncate(k)

(***************************************************************************)
(*                           THE TAG MACHINE                               *)
(*                                                                         *)
(* The tag registry, the datasheet library on disk, the widgets that list  *)
(* them and the active node.  One action is one UI handler, run to its end *)
(* on the UI thread; the dialogs' answers are inputs of the action.        *)
(***************************************************************************)

\* Bound: how many events (a handler run, or a change of the library from
\* outside) one run takes.
MaxTagOps == 2

\* Python None where a str may stand.
NoStr == <<"<None>">>

n1 == <<"n", "1">>
n2 == <<"n", "2">>

\* The fetched nodes: the values of node_combobox, the rows of node_listbox.
Nodes == {n1, n2}

\* The texts the user types into entry_tag.
TagEntries == {<<>>, <<" ", "P", "1">>, <<"q", QUOTE>>}

template0 == <<"T", ".", "X", "L", "S">>
logfile == <<"l", "o", "g">>

\* The datasheet an earlier _add_tag made for n2 from the template.
sheet0 == n2 \o <<"_", "d", "a", "t", "a", "s", "h", "e", "e", "t", ".", "X", "L", "S">>

\* The files that reach the library from outside the application.
OutsideFiles == {template0, logfile}

\* line 1513: ('.xlsx', '.xls', '.xlsm')
spreadsheet_exts ==
    {<<".", "x", "l", "s", "x">>, <<".", "x", "l", "s">>, <<".", "x", "l", "s", "m">>}

c__datasheet == <<"_", "d", "a", "t", "a", "s", "h", "e", "e", "t">>

StrList(list) == [i \in DOMAIN list.v |-> list.v[i].v]

\* tdata.get('nodes', []) and tdata.get('datasheets', [])
NodesOf(tdata) == StrList(GetOr(tdata, c_nodes, List(<<>>)))
DatasheetsOf(tdata) == StrList(GetOr(tdata, c_datasheets, List(<<>>)))

\* A scan that stops after the first tag.
assigned_set_first_tag(reg) ==
    IF reg.v = <<>> THEN {} ELSE SeqToSet(DatasheetsOf(reg.v[1].v))

\* lines 1514-1516: assigned.update(tdata.get('datasheets', [])) over all tags
assigned_set(reg) ==
    UNION {SeqToSet(DatasheetsOf(reg.v[i].v)) : i \in DOMAIN reg.v}

\* line 1513: the sorted names in data_dir that end in a spreadsheet extension
all_files(d) ==
    py_sorted({f \in d : \E e \in spreadsheet_exts : py_endswith(py_lower(f), e)})

\* _refresh_file_and_tag_lists, lines 1510-1527: what it puts in the widgets
Refresh(reg, d) ==
    LET a == assigned_set(reg) IN
    [assigned |-> SelectSeq(all_files(d), LAMBDA f : f \in a),
     unassigned |-> SelectSeq(all_files(d), LAMBDA f : f \notin a),
     datasheets |-> all_files(d),
     tags |-> py_sorted(SeqToSet(Keys(reg)))]

RefreshLists(reg, d) ==
    LET r == Refresh(reg, d) IN
    /\ assigned_files_listbox' = r.assigned
    /\ unassigned_files_listbox' = r.unassigned
    /\ datasheet_combobox' = r.datasheets
    /\ tag_selector_combobox' = [tag_selector_combobox EXCEPT !.values = r.tags]

ListsUnchanged ==
    UNCHANGED <<assigned_files_listbox, unassigned_files_listbox,
                datasheet_combobox, tag_selector_combobox>>

\* An append that does not look first.
append_always(lst, x) == List(Append(lst.v, Str(x)))

\* lines 1566-1570: if x not in lst: lst.append(x)
append_unless_present(lst, x) ==
    IF Contains(StrList(lst), x) THEN lst ELSE List(Append(lst.v, Str(x)))

\* self.tag_associations[tag][key] after the guarded append of x
WithAppended(reg, tag, key, x) ==
    Put(reg, tag, Put(Get(reg, tag), key, append_unless_present(Get(Get(reg, tag), key), x)))

\* An untagging that stops after the first tag that lists the file.
untag_file_first_only(reg, file_name) ==
    LET hits == {i \in DOMAIN reg.v : Contains(DatasheetsOf(reg.v[i].v), file_name)}
    IN  Dict([i \in DOMAIN reg.v |->
             IF i \in hits /\ \A j \in hits : i <= j
             THEN Pair(reg.v[i].k, Put(reg.v[i].v, c_datasheets,
                      List(ListRemove(Get(reg.v[i].v, c_datasheets).v, Str(file_name)))))
             ELSE reg.v[i]])

\* lines 1486-1488: for every tag that lists file_name, datasheets.remove
untag_file(reg, file_name) ==
    Dict([i \in DOMAIN reg.v |->
             IF Contains(DatasheetsOf(reg.v[i].v), file_name)
             THEN Pair(reg.v[i].k, Put(reg.v[i].v, c_datasheets,
                      List(ListRemove(Get(reg.v[i].v, c_datasheets).v, Str(file_name)))))
             ELSE reg.v[i]])

\* _persist_state, lines 273-280: safe_json_dump of the settings, then of
\* the registry to tags_path.  When a dump raises, the exception leaves
\* _persist_state and the tags file keeps its content.
persist_state(reg, dumps_ok) ==
    tags_file' = IF dumps_ok THEN json_dumps(reg) ELSE tags_file

Op(op, tag, node, file, confirmed, ok, refreshed) ==
    [op |-> op, tag |-> tag, node |-> node, file |-> file,
     confirmed |-> confirmed, ok |-> ok, refreshed |-> refreshed]

\* The tag registry as the application finds it in tags.json at start.
TagsStart(file0) ==
    /\ tags_file = file0
    /\ tag_associations = load_or_default(file0, Dict(<<>>)).val
    /\ disk = {template0, sheet0}
    /\ LET r == Refresh(load_or_default(file0, Dict(<<>>)).val, {template0, sheet0}) IN
        /\ assigned_files_listbox = r.assigned
        /\ unassigned_files_listbox = r.unassigned
        /\ datasheet_combobox = r.datasheets
        /\ tag_selector_combobox = [values |-> r.tags, current |-> <<>>]
    /\ active_node = NoStr
    /\ tagBudget = MaxTagOps
    /\ tagOp = Op("init", NoStr, NoStr, NoStr, FALSE, TRUE, TRUE)

\* Registries that earlier sessions leave in tags.json: nothing, one tag
\* with a node and its datasheet, two tags that share the datasheet; and
\* a file cut short.
StartDocs ==
    {Dict(<<TagEntry(<<"P", "1">>, <<Str(n2)>>, <<Str(sheet0)>>)>>),
     Dict(<<TagEntry(<<"P", "1">>, <<Str(n2)>>, <<Str(sheet0)>>),
            TagEntry(<<"q", QUOTE>>, <<>>, <<Str(sheet0)>>)>>)}

TagFiles0 ==
    {Missing} \cup {json_dumps(d) : d \in StartDocs}
              \cup {SubSeq(json_dumps(d), 1, 9) : d \in StartDocs}

\* _add_tag, lines 1531-1574.  entry, node_sel and template_sel are the
\* texts of entry_tag, node_combobox and datasheet_combobox; accept is the
\* answer to the file name prompt (the proposed name, or Cancel), overwrite
\* the answer to "Overwrite?", dumps_ok whether _persist_state's dumps work.
add_tag(entry, node_sel, template_sel, accept, overwrite, dumps_ok) ==
    /\ tagBudget > 0
    /\ UNCHANGED notTags
    /\ LET tag == py_strip(entry)
           node == py_strip(node_sel)
           template == py_strip(template_sel)
           new_filename == node \o c__datasheet \o splitext_ext(template)
           copies == template # <<>>
           \* shutil.copy2(src, dst) raises when src is gone or is dst itself
           copy_ok == template \in disk /\ template # new_filename
           stops == \/ tag = <<>>
                    \/ copies /\ node = <<>>
                    \/ copies /\ ~accept
                    \/ copies /\ new_filename \in disk /\ ~overwrite
                    \/ copies /\ ~copy_ok
           empty == Dict(<<Pair(c_nodes, List(<<>>)), Pair(c_datasheets, List(<<>>))>>)
           reg1 == IF HasKey(tag_associations, tag) THEN tag_associations
                   ELSE Put(tag_associations, tag, empty)
           reg2 == IF node # <<>> THEN WithAppended(reg1, tag, c_nodes, node) ELSE reg1
           reg3 == IF copies THEN WithAppended(reg2, tag, c_datasheets, new_filename)
                   ELSE reg2
           disk3 == IF copies THEN disk \cup {new_filename} ELSE disk
       IN  IF stops
           THEN /\ tagOp' = Op("add_tag", NoStr, NoStr, NoStr, FALSE, FALSE, FALSE)
                /\ ListsUnchanged
                /\ UNCHANGED <<tag_associations, tags_file, disk, active_node>>
                /\ tagBudget' = tagBudget - 1
           ELSE /\ tag_associations' = reg3
                /\ disk' = disk3
                /\ RefreshLists(reg3, disk3)
                /\ persist_state(reg3, dumps_ok)
                /\ tagBudget' = tagBudget - 1
                /\ tagOp' = Op("add_tag", tag, node,
                               IF copies THEN new_filename ELSE NoStr,
                               TRUE, TRUE, TRUE)
                /\ UNCHANGED active_node

\* _remove_file, lines 1469-1492.  file_name is the selected row, confirm
\* the answer to "Confirm Removal", locked whether os.remove finds the file
\* held open.  os.remove raises when the file is gone or locked; the except
\* clause then shows the error and the registry is not touched.  The
\* runs of the tag machine have no workbook open (lines 1478-1482).
remove_file(file_name, confirm, locked) ==
    /\ tagBudget > 0
    /\ UNCHANGED notTags
    /\ \/ Contains(assigned_files_listbox, file_name)
       \/ Contains(unassigned_files_listbox, file_name)
    /\ LET removed == confirm /\ file_name \in disk /\ ~locked
           reg == untag_file(tag_associations, file_name)
       IN  IF removed
           THEN /\ disk' = disk \ {file_name}
                /\ tag_associations' = reg
                /\ RefreshLists(reg, disk \ {file_name})
                /\ tagBudget' = tagBudget - 1
                /\ tagOp' = Op("remove_file", NoStr, NoStr, file_name, TRUE, TRUE, TRUE)
                /\ UNCHANGED <<tags_file, active_node>>
           ELSE /\ tagOp' = Op("remove_file", NoStr, NoStr, file_name, confirm, FALSE, FALSE)
                /\ ListsUnchanged
                /\ UNCHANGED <<tag_associations, tags_file, disk, active_node>>
                /\ tagBudget' = tagBudget - 1

\* _import_datasheet_template, lines 1431-1448: copy a file into the
\* library (asking before overwriting) and refresh the lists.
import_datasheet_template(fn, overwrite) ==
    /\ tagBudget > 0
    /\ UNCHANGED notTags
    /\ IF fn \in disk /\ ~overwrite
       THEN /\ tagOp' = Op("import", NoStr, NoStr, fn, FALSE, FALSE, FALSE)
            /\ ListsUnchanged
            /\ UNCHANGED <<tag_associations, tags_file, disk, active_node>>
                /\ tagBudget' = tagBudget - 1
       ELSE /\ disk' = disk \cup {fn}
            /\ RefreshLists(tag_associations, disk \cup {fn})
            /\ tagBudget' = tagBudget - 1
            /\ tagOp' = Op("import", NoStr, NoStr, fn, TRUE, TRUE, TRUE)
            /\ UNCHANGED <<tag_associations, tags_file, active_node>>

\* Outside the application a file is put into, or taken out of, data_dir.
ExternalCreate(fn) ==
    /\ tagBudget > 0
    /\ UNCHANGED notTags
    /\ fn \notin disk
    /\ disk' = disk \cup {fn}
    /\ tagBudget' = tagBudget - 1
    /\ tagOp' = Op("external", NoStr, NoStr, fn, FALSE, TRUE, FALSE)
    /\ ListsUnchanged
    /\ UNCHANGED <<tag_associations, tags_file, active_node>>

ExternalDelete(fn) ==
    /\ tagBudget > 0
    /\ UNCHANGED notTags
    /\ fn \in disk
    /\ disk' = disk \ {fn}
    /\ tagBudget' = tagBudget - 1
    /\ tagOp' = Op("external", NoStr, NoStr, fn, FALSE, TRUE, FALSE)
    /\ ListsUnchanged
    /\ UNCHANGED <<tag_associations, tags_file, active_node>>

\* _set_active_node, lines 1705-1718 (the label and the listbox selection
\* it also sets are not part of the model)
set_active_node(node_name) == active_node' = node_name

\* A choice that takes the first node of any tag that has nodes.
first_node_of_selected_tag(nodes) == IF nodes # <<>> THEN nodes[1] ELSE NoStr

\* lines 1594-1597: nodes[0] if len(nodes) == 1 else None
node_of_selected_tag(nodes) == IF Len(nodes) = 1 THEN nodes[1] ELSE NoStr

\* _on_node_manual_select, lines 1700-1703: a double click on a row of
\* node_listbox.
on_node_manual_select(node_name) ==
    /\ tagBudget > 0
    /\ UNCHANGED notTags
    /\ set_active_node(node_name)
    /\ tagOp' = Op("manual_select", NoStr, node_name, NoStr, FALSE, TRUE, FALSE)
    /\ ListsUnchanged
    /\ UNCHANGED <<tag_associations, tags_file, disk>>
    /\ tagBudget' = tagBudget - 1

\* _safe_save_all, lines 2008-2015: _persist_state inside try/except.  The
\* runs of the tag machine have no workbook open (lines 2010-2011).
safe_save_all(dumps_ok) ==
    /\ tagBudget > 0
    /\ UNCHANGED notTags
    /\ persist_state(tag_associations, dumps_ok)
    /\ tagOp' = Op("save", NoStr, NoStr, NoStr, FALSE, dumps_ok, FALSE)
    /\ ListsUnchanged
    /\ UNCHANGED <<tag_associations, disk, active_node>>
    /\ tagBudget' = tagBudget - 1


(***************************************************************************)
(*                          THE TREE MACHINE                               *)
(*                                                                         *)
(* The ttk.Treeview of the hierarchy tab.  An item has a parent, a text,   *)
(* a list of tags (the first is its type), an open flag and its children,  *)
(* in order.  Item 0 is the Treeview's own root "": it is no node, and its *)
(* children are the top-level items.  The Treeview numbers the items it    *)
(* makes and never gives a number twice.                                   *)
(***************************************************************************)

\* Bound: how many events one run of the tree machine takes.
MaxTreeOps == 3

\* The item "", and the empty selection.
NoItem == 0

EntityTags ==
    {"plant_node", "unit_node", "area_node", "equipment_node",
     "sub_equipment_node", "asset_node"}

\* The tags that start with "bucket_" (child_tag.startswith("bucket_")).
BucketTags ==
    {"bucket_plants", "bucket_units", "bucket_areas", "bucket_equipment",
     "bucket_sub_equipment", "bucket_assets"}

TypeTags == {"project_node"} \cup EntityTags \cup BucketTags

\* self.allowed_children, lines 897-917
allowed_children ==
    [ty \in TypeTags |->
        CASE ty = "project_node" -> <<"bucket_plants">>
          [] ty = "bucket_plants" -> <<"plant_node">>
          [] ty = "plant_node" -> <<"bucket_units">>
          [] ty = "bucket_units" -> <<"unit_node">>
          [] ty = "unit_node" -> <<"bucket_areas", "bucket_equipment", "bucket_assets">>
          [] ty = "bucket_areas" -> <<"area_node">>
          [] ty = "bucket_equipment" -> <<"equipment_node">>
          [] ty = "bucket_assets" -> <<"asset_node">>
          [] ty = "area_node" -> <<"bucket_equipment", "bucket_assets">>
          [] ty = "equipment_node" -> <<"bucket_sub_equipment", "bucket_assets">>
          [] ty = "bucket_sub_equipment" -> <<"sub_equipment_node">>
          [] ty = "sub_equipment_node" -> <<"bucket_assets">>
          [] ty = "asset_node" -> <<>>]

\* self.allowed_children.get(parent_type, [])
allowed_children_get(parent_type) ==
    IF parent_type \in DOMAIN allowed_children THEN allowed_children[parent_type]
    ELSE <<>>

\* self.pretty_type, lines 919-933
pretty_type ==
    [ty \in TypeTags |->
        CASE ty = "project_node" -> "Project"
          [] ty = "plant_node" -> "Plant"
          [] ty = "unit_node" -> "Unit"
          [] ty = "area_node" -> "Area"
          [] ty = "equipment_node" -> "Equipment"
          [] ty = "sub_equipment_node" -> "Sub-Equipment"
          [] ty = "asset_node" -> "Asset"
          [] ty = "bucket_plants" -> "Plants"
          [] ty = "bucket_units" -> "Units"
          [] ty = "bucket_areas" -> "Areas"
          [] ty = "bucket_equipment" -> "Equipment"
          [] ty = "bucket_sub_equipment" -> "Sub-Equipment"
          [] ty = "bucket_assets" -> "Assets"]

\* bucket_for_child, lines 697-704
bucket_for_child ==
    [ty \in EntityTags |->
        CASE ty = "plant_node" -> "bucket_plants"
          [] ty = "unit_node" -> "bucket_units"
          [] ty = "area_node" -> "bucket_areas"
          [] ty = "equipment_node" -> "bucket_equipment"
          [] ty = "sub_equipment_node" -> "bucket_sub_equipment"
          [] ty = "asset_node" -> "bucket_assets"]

Bucket(label, tag) == [label |-> label, tag |-> tag]

\* The buckets _ensure_buckets makes under an owner of each type, in order
\* (lines 643-659).
buckets_of_owner(owner_type) ==
    CASE owner_type = "plant_node" ->
            <<Bucket("Units", "bucket_units"), Bucket("Areas", "bucket_areas"),
              Bucket("Equipment", "bucket_equipment"), Bucket("Assets", "bucket_assets")>>
      [] owner_type = "unit_node" ->
            <<Bucket("Areas", "bucket_areas"), Bucket("Equipment", "bucket_equipment"),
              Bucket("Assets", "bucket_assets")>>
      [] owner_type = "area_node" ->
            <<Bucket("Equipment", "bucket_equipment"), Bucket("Assets", "bucket_assets")>>
      [] owner_type = "equipment_node" ->
            <<Bucket("Sub-Equipment", "bucket_sub_equipment"),
              Bucket("Assets", "bucket_assets")>>
      [] owner_type = "sub_equipment_node" -> <<Bucket("Assets", "bucket_assets")>>
      [] OTHER -> <<>>

(* ----------------------------- ttk.Treeview ---------------------------- *)

Item(parent, text, tags, open) ==
    [parent |-> parent, text |-> text, tags |-> tags, open |-> open,
     children |-> <<>>]

\* An empty Treeview.
EmptyTree == [i \in {NoItem} |-> Item(NoItem, "", <<>>, TRUE)]

\* A Treeview and the count of the items it has made, with the value the
\* latest call returned.
Tv(t, n, ret) == [t |-> t, n |-> n, ret |-> ret]

\* tree.exists(iid)
tree_exists(t, iid) == iid # NoItem /\ iid \in DOMAIN t

\* tree.get_children(iid)
get_children(t, iid) == t[iid].children

\* tree.insert(parent, "end", text=..., open=..., tags=...): a new item, last
\* among the children of parent.
tree_insert(tv, parent, text, tags, open) ==
    LET iid == tv.n + 1 IN
    Tv([i \in DOMAIN tv.t \cup {iid} |->
           IF i = iid THEN Item(parent, text, tags, open)
           ELSE IF i = parent THEN [tv.t[i] EXCEPT !.children = Append(@, iid)]
           ELSE tv.t[i]],
       iid, iid)

RECURSIVE Descendants(_, _)
\* The items below iid.
Descendants(t, iid) ==
    UNION {{c} \cup Descendants(t, c) : c \in SeqToSet(t[iid].children)}

\* A delete that takes the item out and leaves the items below it.
tree_delete_item_only(t, iid) ==
    [i \in DOMAIN t \ {iid} |->
        IF i = t[iid].parent
        THEN [t[i] EXCEPT !.children = SelectSeq(@, LAMBDA c : c # iid)]
        ELSE t[i]]

\* tree.delete(iid): the item and everything below it leave the Treeview.
tree_delete(t, iid) ==
    LET gone == {iid} \cup Descendants(t, iid) IN
    [i \in DOMAIN t \ gone |->
        IF i = t[iid].parent
        THEN [t[i] EXCEPT !.children = SelectSeq(@, LAMBDA c : c # iid)]
        ELSE t[i]]

\* tree.item(iid, text=new)
tree_set_text(t, iid, new) == [t EXCEPT ![iid].text = new]

\* _get_node_type, lines 661-663
get_node_type(t, iid) ==
    IF t[iid].tags # <<>> THEN t[iid].tags[1] ELSE "project_node"

\* An _insert_bucket that never looks for the bucket.
insert_bucket_always(tv, parent_iid, label, tag) ==
    tree_insert(tv, parent_iid, label, <<tag, "bucket_bold">>, TRUE)

\* _insert_bucket, lines 628-639: the first child of parent that carries
\* the tag, or a new bucket.
insert_bucket(tv, parent_iid, label, tag) ==
    LET kids == get_children(tv.t, parent_iid)
        hits == {k \in DOMAIN kids : Contains(tv.t[kids[k]].tags, tag)}
    IN  IF hits # {}
        THEN Tv(tv.t, tv.n, kids[CHOOSE k \in hits : \A j \in hits : k <= j])
        ELSE tree_insert(tv, parent_iid, label, <<tag, "bucket_bold">>, TRUE)

RECURSIVE insert_buckets(_, _, _)
insert_buckets(tv, owner_iid, buckets) ==
    IF buckets = <<>> THEN tv
    ELSE insert_buckets(insert_bucket(tv, owner_iid, Head(buckets).label, Head(buckets).tag),
                        owner_iid, Tail(buckets))

\* _ensure_buckets, lines 641-659
ensure_buckets(tv, owner_iid, owner_type) ==
    insert_buckets(tv, owner_iid, buckets_of_owner(owner_type))


(* ------------------------- the tree's handlers ------------------------- *)

\* self.fetched_nodes as __init__ leaves it (line 229).
NoNodes == [all |-> <<>>, equipment |-> <<>>, sub_equipment |-> <<>>, asset |-> <<>>]

\* node_type_map.get(child_tag, 'all'), lines 740-745
repo_key(child_tag) ==
    CASE child_tag = "equipment_node" -> "equipment"
      [] child_tag = "sub_equipment_node" -> "sub_equipment"
      [] child_tag = "asset_node" -> "asset"
      [] OTHER -> "all"

\* self.fetched_nodes.get(repo_key) or self.fetched_nodes['all'], line 746
repo_nodes(fetched, child_tag) ==
    IF fetched[repo_key(child_tag)] # <<>> THEN fetched[repo_key(child_tag)]
    ELSE fetched.all

Done(tv, how) == [tv |-> tv, how |-> how]

RECURSIVE insert_entities(_, _, _, _)
\* lines 761-764: for name in dlg.result: insert, _ensure_buckets
insert_entities(tv, bucket_iid, child_tag, names) ==
    IF names = <<>> THEN tv
    ELSE LET made == tree_insert(tv, bucket_iid, Head(names), <<child_tag>>, TRUE) IN
         insert_entities(ensure_buckets(made, made.ret, child_tag),
                         bucket_iid, child_tag, Tail(names))

\* lines 722-765 of _create_child: the entity is named (name is the answer
\* to the prompt, "" for Cancel) or picked from the repository nodes
\* (picked is dlg.result, empty for Cancel) and inserted into the bucket.
create_entity(tv, bucket_iid, child_tag, name, picked, fetched) ==
    IF child_tag \in {"plant_node", "unit_node", "area_node"}
    THEN IF name = "" THEN Done(tv, "cancelled")
         ELSE LET made == tree_insert(tv, bucket_iid, name, <<child_tag>>, TRUE) IN
              Done(ensure_buckets(made, made.ret, child_tag), "created")
    ELSE IF fetched.all = <<>> THEN Done(tv, "no_nodes")
    ELSE IF picked = <<>> THEN Done(tv, "cancelled")
    ELSE Done(insert_entities(tv, bucket_iid, child_tag, picked), "created")

\* _create_child, lines 682-765
create_child(tv, parent_iid, child_tag, name, picked, fetched) ==
    LET parent_type == get_node_type(tv.t, parent_iid) IN
    IF child_tag \in BucketTags
    THEN Done(insert_bucket(tv, parent_iid,
                            IF child_tag \in DOMAIN pretty_type
                            THEN pretty_type[child_tag] ELSE child_tag,
                            child_tag), "bucket")
    ELSE IF parent_type \in BucketTags
    THEN create_entity(tv, parent_iid, child_tag, name, picked, fetched)
    ELSE IF child_tag \notin DOMAIN bucket_for_child
    THEN Done(tv, "not_allowed")
    ELSE LET needed_bucket_tag == bucket_for_child[child_tag]
             ensured == IF child_tag # "plant_node"
                        THEN ensure_buckets(tv, parent_iid, parent_type) ELSE tv
             found == insert_bucket(ensured, parent_iid,
                                    pretty_type[needed_bucket_tag], needed_bucket_tag)
         IN  create_entity(found, found.ret, child_tag, name, picked, fetched)

\* The text of the inline row of a node that is not backed by the
\* repository, lines 826-828 (the "•" is written "-").
inline_text(node_type, node_name) ==
    (IF node_type \in DOMAIN pretty_type THEN pretty_type[node_type] ELSE "None")
    \o " - " \o node_name

LOADING == "(loading...)"

\* line 790: the types whose details come from the repository
RepoBacked == {"equipment_node", "sub_equipment_node", "asset_node"}

RECURSIVE delete_all(_, _)
delete_all(t, iids) ==
    IF iids = <<>> THEN t
    ELSE delete_all(IF Head(iids) \in DOMAIN t THEN tree_delete(t, Head(iids)) ELSE t,
                    Tail(iids))

\* lines 778-780: the children of iid tagged inline_info
stale_inline_rows(t, iid) ==
    SelectSeq(get_children(t, iid), LAMBDA c : Contains(t[c].tags, "inline_info"))

\* _render_inline_details, lines 775-828: the earlier inline rows of iid are
\* deleted and a new one is put last under iid; for a node backed by the
\* repository the row reads "(loading...)" until the query's callback.
render_inline_details(tv, iid) ==
    LET cleared == Tv(delete_all(tv.t, stale_inline_rows(tv.t, iid)), tv.n, 0)
        node_type == get_node_type(tv.t, iid)
        row == tree_insert(cleared, iid, LOADING, <<"inline_info">>, FALSE)
    IN  IF node_type \in RepoBacked
        THEN Tv([row.t EXCEPT ![iid].open = TRUE], row.n, row.ret)
        ELSE Tv([row.t EXCEPT ![iid].open = TRUE,
                              ![row.ret].text = inline_text(node_type, tv.t[iid].text)],
                row.n, row.ret)

(* --------------------------- serialization ----------------------------- *)

\* The dict of one node in a tree document.
Node(text, tags, open, children) ==
    [text |-> text, tags |-> tags, open |-> open, children |-> children]

\* {} as a tree document
NoDocument == [empty |-> TRUE]

IsNoDocument(data) == "empty" \in DOMAIN data

RECURSIVE build(_, _)
RECURSIVE build_children(_, _)
\* build of _serialize_tree, lines 1807-1821; callers pass only items
\* that are not tagged inline_info.
build(t, iid) ==
    Node(t[iid].text, t[iid].tags, t[iid].open, build_children(t, get_children(t, iid)))

\* lines 1817-1820, with line 1809: a child tagged inline_info gives None
\* and is not appended.
build_children(t, iids) ==
    IF iids = <<>> THEN <<>>
    ELSE IF Contains(t[Head(iids)].tags, "inline_info")
         THEN build_children(t, Tail(iids))
         ELSE <<build(t, Head(iids))>> \o build_children(t, Tail(iids))

\* A serialization that writes every item.
serialize_everything(t, root) ==
    LET RECURSIVE all(_)
        all(iid) == Node(t[iid].text, t[iid].tags, t[iid].open,
                         [k \in DOMAIN t[iid].children |-> all(t[iid].children[k])])
    IN  all(root)

\* _serialize_tree, lines 1803-1823, for a project_root that exists
serialize_tree(t, root) ==
    IF Contains(t[root].tags, "inline_info") THEN NoDocument ELSE build(t, root)

RECURSIVE insert_document(_, _, _)
RECURSIVE insert_documents(_, _, _)
\* insert of _rebuild_tree_from_serialized, lines 1836-1846; ret is the
\* item made for node.
insert_document(tv, node, parent) ==
    LET tags_tuple ==
            IF \E k \in DOMAIN node.tags :
                  node.tags[k] \in BucketTags \cup {"bucket_bold"}
            THEN Append(node.tags, "bucket_bold") ELSE node.tags
        made == tree_insert(tv, parent, node.text, tags_tuple, node.open)
        filled == insert_documents(made, node.children, made.ret)
    IN  Tv(filled.t, filled.n, made.ret)

insert_documents(tv, nodes, parent) ==
    IF nodes = <<>> THEN tv
    ELSE insert_documents(insert_document(tv, Head(nodes), parent), Tail(nodes), parent)

\* _rebuild_tree_from_serialized, lines 1825-1849: nothing for an empty
\* document; else every top-level item is deleted and the document is
\* inserted; ret is the new project_root (the old one when nothing is done).
rebuild_tree_from_serialized(tv, root, data) ==
    IF IsNoDocument(data) THEN Tv(tv.t, tv.n, root)
    ELSE insert_document(Tv(EmptyTree, tv.n, 0), data, NoItem)

\* The minimal default of lines 1995-1998 and 1956-1959.
DefaultDocument ==
    Node("Project", <<"project_node">>, TRUE,
         <<Node("Plants", <<"bucket_plants">>, TRUE, <<>>)>>)


(* ------------------------- the tree's events --------------------------- *)

\* The latest step: the handler, the item it was about, a tag, how it
\* ended, and how many items were below the item when it began.
TreeOp(op, iid, tag, how) ==
    [op |-> op, iid |-> iid, tag |-> tag, how |-> how,
     below |-> IF tree_exists(tree, iid) THEN Cardinality(Descendants(tree, iid))
               ELSE 0]

\* The names the user types for plants, units and areas; "" is Cancel.
TreeNames == {"", "A"}

\* The nodes of the repository as an earlier fetch and categorization
\* left them in self.fetched_nodes.
SomeNodes ==
    [all |-> <<"E1", "S1">>, equipment |-> <<"E1">>,
     sub_equipment |-> <<"S1">>, asset |-> <<>>]

\* The sublists of a list, as the selection dialog returns them.
RECURSIVE Sublists(_)
Sublists(q) ==
    IF q = <<>> THEN {<<>>}
    ELSE LET rest == Sublists(Tail(q)) IN rest \cup {<<Head(q)>> \o r : r \in rest}

\* _build_plant_hierarchy_tab, lines 859-865: Project, and under it the
\* Plants bucket.
InitialTree ==
    insert_bucket(tree_insert(Tv(EmptyTree, 0, 0), NoItem, "Project",
                              <<"project_node">>, TRUE),
                  1, "Plants", "bucket_plants")

\* _get_insert_parent, lines 665-667
get_insert_parent == IF selection # NoItem THEN selection ELSE project_root

\* The user clicks a row: it becomes the selection and _on_tree_select,
\* lines 767-773, renders its inline details.  For a node backed by the
\* repository _run_sparql_query_bg (line 803) raises when the repository
\* URL is unset: the handler ends there, with the row already made.
on_tree_select(iid) ==
    /\ treeBudget > 0
    /\ tree_exists(tree, iid)
    /\ UNCHANGED notTree
    /\ LET r == render_inline_details(Tv(tree, last_iid, 0), iid) IN
        /\ tree' = r.t
        /\ last_iid' = r.n
    /\ selection' = iid
    /\ treeBudget' = treeBudget - 1
    /\ treeOp' = TreeOp("select", iid, get_node_type(tree, iid),
                        IF /\ get_node_type(tree, iid) \in RepoBacked
                           /\ repo_url = ""
                        THEN "raised" ELSE "rendered")
    /\ UNCHANGED <<project_root, project_file>>

\* The callback `after` of _render_inline_details, lines 805-822, for an
\* inline row that still reads "(loading...)": the row takes its text if
\* it still exists.  The query was submitted only if the repository URL,
\* which no event of this machine changes, is set.
inline_details_result(info_iid, failed) ==
    /\ treeBudget > 0
    /\ repo_url # ""
    /\ tree_exists(tree, info_iid)
    /\ Contains(tree[info_iid].tags, "inline_info")
    /\ tree[info_iid].text = LOADING
    /\ UNCHANGED notTree
    /\ LET owner == tree[info_iid].parent
           text == inline_text(get_node_type(tree, owner), tree[owner].text)
       IN  tree' = tree_set_text(tree, info_iid,
                                 IF failed THEN text ELSE text \o " | props")
    /\ treeBudget' = treeBudget - 1
    /\ treeOp' = TreeOp("inline_result", info_iid, "inline_info", "text")
    /\ UNCHANGED <<last_iid, project_root, selection, project_file>>

\* "Add" of the context menu (lines 868-886) and the "+" key
\* (_add_child_clicked, lines 669-680): the menu offers the allowed
\* children of the insert parent's type and its command calls _create_child.
add_child(child_tag, name, picked) ==
    /\ treeBudget > 0
    /\ tree_exists(tree, get_insert_parent)
    /\ Contains(allowed_children_get(get_node_type(tree, get_insert_parent)), child_tag)
    /\ UNCHANGED notTree
    /\ LET r == create_child(Tv(tree, last_iid, 0), get_insert_parent, child_tag,
                             name, picked, fetched_nodes)
       IN  /\ tree' = r.tv.t
           /\ last_iid' = r.tv.n
           /\ treeOp' = TreeOp("add_child", get_insert_parent, child_tag, r.how)
    /\ treeBudget' = treeBudget - 1
    /\ UNCHANGED <<project_root, selection, project_file>>

\* _create_child(parent_iid, child_tag) called with any item and any tag;
\* a run ends with the call.
call_create_child(parent_iid, child_tag, name, picked) ==
    /\ treeBudget > 0
    /\ tree_exists(tree, parent_iid)
    /\ UNCHANGED notTree
    /\ LET r == create_child(Tv(tree, last_iid, 0), parent_iid, child_tag,
                             name, picked, fetched_nodes)
       IN  /\ tree' = r.tv.t
           /\ last_iid' = r.tv.n
           /\ treeOp' = TreeOp("create_child", parent_iid, child_tag, r.how)
    /\ treeBudget' = 0
    /\ UNCHANGED <<project_root, selection, project_file>>

\* _rename_item, lines 1751-1757; current_item_id is never set, so the
\* item is the selection.
rename_item(new) ==
    /\ treeBudget > 0
    /\ tree_exists(tree, selection)
    /\ UNCHANGED notTree
    /\ tree' = IF new # "" THEN tree_set_text(tree, selection, new) ELSE tree
    /\ treeBudget' = treeBudget - 1
    /\ treeOp' = TreeOp("rename", selection, get_node_type(tree, selection),
                        IF new # "" THEN "renamed" ELSE "cancelled")
    /\ UNCHANGED <<last_iid, project_root, selection, project_file>>

\* _delete_item, lines 1759-1763; a deleted item leaves the selection.
delete_item(confirm) ==
    /\ treeBudget > 0
    /\ tree_exists(tree, selection)
    /\ UNCHANGED notTree
    /\ tree' = IF confirm THEN tree_delete(tree, selection) ELSE tree
    /\ selection' = IF confirm THEN NoItem ELSE selection
    /\ treeBudget' = treeBudget - 1
    /\ treeOp' = TreeOp("delete", selection, get_node_type(tree, selection),
                        IF confirm THEN "deleted" ELSE "cancelled")
    /\ UNCHANGED <<last_iid, project_root, project_file>>

(* --------------------------- project folders --------------------------- *)

\* project.json: missing, a text that json.load reads (kind "text"), or
\* the tree document a _save_project_folder wrote (kind "document": the
\* dump and the load of a tree document are taken to give the document
\* back; the store machine and the registry have the JSON layer itself).
ProjectFile(kind, text, doc) == [kind |-> kind, text |-> text, doc |-> doc]

NoFile == ProjectFile("missing", <<>>, NoDocument)

\* safe_json_load(project_path, {}) of line 1991, for the files of the
\* model: a document, or a text that gives {}.
project_data(file) ==
    IF file.kind = "document" THEN file.doc
    ELSE IF load_or_default(file.text, Dict(<<>>)).val = Dict(<<>>) THEN NoDocument
    ELSE DefaultDocument

\* The tree of an earlier session: plant A with its buckets and the asset
\* E1 in its Assets bucket.
SessionTree ==
    LET a == create_child(InitialTree, InitialTree.ret, "plant_node", "A", <<>>,
                          SomeNodes).tv
    IN  create_child(a, InitialTree.n + 1, "asset_node", "", <<"E1">>, SomeNodes).tv

\* What a project folder holds: tags.json, project.json and the files of
\* excel_files (is_dir: whether excel_files exists).
Folder(tags, project, is_dir, excel) ==
    [tags |-> tags, project |-> project, is_dir |-> is_dir, excel |-> excel]

\* A tags.json with one tag, and one cut short while it was written.
FolderTags == json_dumps(Dict(<<TagEntry(<<"P", "1">>, <<Str(n2)>>, <<Str(sheet0)>>)>>))

\* The folders the user can choose: the folder of the open project, a
\* folder that is no project, and folders other sessions left: one whose
\* two documents were cut short, one whose project.json holds {}, one with
\* only excel_files, and one saved with the tree of SessionTree.
Folders ==
    {Folder(tags_file, project_file, TRUE, disk),
     Folder(Missing, NoFile, FALSE, {}),
     Folder(SubSeq(FolderTags, 1, 9),
            ProjectFile("text", SubSeq(json_dumps(Dict(<<Pair(<<"t", "e", "x", "t">>,
                                                              Str(<<"P", "r">>))>>)), 1, 12),
                        NoDocument),
            TRUE, {template0}),
     Folder(FolderTags, ProjectFile("text", json_dumps(Dict(<<>>)), NoDocument),
            TRUE, {template0, sheet0}),
     Folder(Missing, NoFile, TRUE, {template0}),
     Folder(FolderTags,
            ProjectFile("document", <<>>, serialize_tree(SessionTree.t, InitialTree.n - 1)),
            TRUE, {template0, sheet0})}

\* _save_project_folder, lines 1913-1938, for a project folder that is
\* set: tags.json, then project.json, then _persist_state, all inside
\* try/except.  _serialize_tree raises when project_root is gone.
save_project_folder(dumps_ok) ==
    /\ treeBudget > 0
    /\ UNCHANGED <<trackerVars, storeVars, fetchVars, editorVars, poolVars>>
    /\ tags_file' = IF dumps_ok THEN json_dumps(tag_associations) ELSE tags_file
    /\ project_file' =
          IF dumps_ok /\ tree_exists(tree, project_root)
          THEN ProjectFile("document", <<>>, serialize_tree(tree, project_root))
          ELSE project_file
    /\ treeBudget' = treeBudget - 1
    /\ treeOp' = TreeOp("save", project_root, "",
                        IF dumps_ok /\ tree_exists(tree, project_root)
                        THEN "saved" ELSE "failed")
    /\ ListsUnchanged
    /\ UNCHANGED <<tree, last_iid, project_root, selection>>
    /\ UNCHANGED <<tag_associations, disk, active_node, tagBudget, tagOp>>

\* _open_project_folder, lines 1963-2006, for the chosen folder; dumps_ok
\* is whether the dumps of _persist_state work.
open_project_folder(folder, dumps_ok) ==
    /\ treeBudget > 0
    /\ UNCHANGED <<trackerVars, storeVars, fetchVars, editorVars, poolVars>>
    /\ treeBudget' = treeBudget - 1
    /\ UNCHANGED <<active_node, tagBudget, tagOp>>
    /\ IF folder.tags = Missing /\ folder.project.kind = "missing" /\ ~folder.is_dir
       THEN /\ treeOp' = TreeOp("open", project_root, folder.project.kind, "not_a_project")
            /\ ListsUnchanged
            /\ UNCHANGED <<tree, last_iid, project_root, selection, project_file,
                           tag_associations, tags_file, disk>>
       ELSE LET reg == IF folder.tags # Missing
                       THEN load_or_default(folder.tags, Dict(<<>>)).val
                       ELSE Dict(<<>>)
                data == IF folder.project.kind # "missing"
                        THEN project_data(folder.project) ELSE DefaultDocument
                built == rebuild_tree_from_serialized(Tv(tree, last_iid, 0),
                                                      project_root, data)
            IN  /\ tag_associations' = reg
                /\ disk' = folder.excel
                /\ tree' = built.t
                /\ last_iid' = built.n
                /\ project_root' = built.ret
                /\ selection' = IF tree_exists(built.t, selection) THEN selection
                                ELSE NoItem
                /\ project_file' = folder.project
                /\ RefreshLists(reg, folder.excel)
                /\ tags_file' = IF dumps_ok THEN json_dumps(reg) ELSE folder.tags
                /\ treeOp' = TreeOp("open", built.ret, folder.project.kind,
                                    IF dumps_ok THEN "opened" ELSE "failed")

TreeStart ==
    /\ tree = InitialTree.t
    /\ last_iid = InitialTree.n
    /\ project_root = 1
    /\ selection = NoItem
    /\ treeBudget = MaxTreeOps
    /\ project_file = NoFile
    /\ treeOp = TreeOp("init", NoItem, "", "")

TreeEvents ==
    \/ \E iid \in DOMAIN tree : on_tree_select(iid)
    \/ \E iid \in DOMAIN tree, failed \in BOOLEAN : inline_details_result(iid, failed)
    \/ \E child_tag \in TypeTags, name \in TreeNames :
         \E picked \in Sublists(repo_nodes(fetched_nodes, child_tag)) :
            add_child(child_tag, name, picked)
    \/ \E new \in {"", "R"} : rename_item(new)
    \/ \E confirm \in BOOLEAN : delete_item(confirm)
    \/ \E dumps_ok \in BOOLEAN : save_project_folder(dumps_ok)
    \/ \E folder \in Folders, dumps_ok \in BOOLEAN : open_project_folder(folder, dumps_ok)

TreeNext == TreeEvents

\* Trees are built by selecting rows and adding children, and then
\* _create_child is called on any item with any tag.
TreeCallsNext ==
    \/ \E iid \in DOMAIN tree : on_tree_select(iid)
    \/ \E child_tag \in TypeTags, name \in TreeNames :
         \E picked \in Sublists(repo_nodes(fetched_nodes, child_tag)) :
            add_child(child_tag, name, picked)
    \/ \E parent_iid \in DOMAIN tree, child_tag \in TypeTags, name \in TreeNames :
         \E picked \in Sublists(repo_nodes(fetched_nodes, child_tag)) :
            call_create_child(parent_iid, child_tag, name, picked)


(***************************************************************************)
(*                          THE FETCH MACHINE                              *)
(*                                                                         *)
(* The handlers that query the repository.  A handler runs on the UI       *)
(* thread; the query it submits ends later, and its callback then runs on  *)
(* the UI thread (the tracker machine has the delivery in detail).         *)
(***************************************************************************)

\* Bound: how many events one run of the fetch machine takes.
MaxFetchOps == 6

\* "PREFIX ex: <http://example.org/pumps#>" (line 234), shortened
DefaultPrefix == <<"e", ":", "<", "u", "#", ">">>

\* The texts the user leaves in the prefix entry.
Prefixes == {DefaultPrefix, <<"e", ":">>, <<" ">>}

\* s.split(sep)[-1]: what follows the last sep, or all of s.
split_last(s, sep) ==
    LET hits == {i \in DOMAIN s : s[i] = sep} IN
    IF hits = {} THEN s
    ELSE SubSeq(s, (CHOOSE i \in hits : \A j \in hits : j <= i) + 1, Len(s))

\* s.split(sep)[0]: what precedes the first sep, or all of s.
split_first(s, sep) ==
    LET hits == {i \in DOMAIN s : s[i] = sep} IN
    IF hits = {} THEN s
    ELSE SubSeq(s, 1, (CHOOSE i \in hits : \A j \in hits : i <= j) - 1)

\* s.split(sep)[1], for an s that holds sep: what lies between the first
\* sep and the next.
split_second(s, sep) ==
    LET hits == {i \in DOMAIN s : s[i] = sep}
        first == CHOOSE i \in hits : \A j \in hits : i <= j
    IN  split_first(SubSeq(s, first + 1, Len(s)), sep)

\* A local name taken after the last '#' only.
local_name_after_hash(value) == split_last(value, "#")

\* value.split('#')[-1].split('/')[-1], lines 1174 and 1208
local_name(value) == split_last(split_last(value, "#"), "/")

\* line 1154: prefix_str.split('<')[1].split('>')[0]
uri_base(prefix_str) == split_first(split_second(prefix_str, "<"), ">")

\* The resources of the repository: two have the local name b.
Uris ==
    {<<"u", "#", "b">>, <<"w", "/", "a">>, <<"h", "/", "u", "#", "c", "/", "b">>}

\* Bound: how many rows a query returns at most.
MaxRows == 2

\* The bindings of a query: rows of distinct resources, in any order.
Bindings ==
    {q \in UNION {[1..n -> Uris] : n \in 0..MaxRows} :
        \A i, j \in DOMAIN q : i # j => q[i] # q[j]}

\* What a callback is called with: the bindings, or the exception.
Rows(q) == [exc |-> FALSE, rows |-> q]
Exc == [exc |-> TRUE, rows |-> <<>>]

\* isinstance(res, Exception)
IsException(res) == res.exc

\* The outcomes of the work of each kind of call: run of
\* _run_sparql_query_bg returns the bindings or raises; job of
\* _test_connection returns a truth value or the exception it caught.
\* The rows of the data model are drawn, not kept, and one row per list
\* is enough for a categorization.
CallOutcomes(kind) ==
    CASE kind = "test" -> {Returned(Rows(<<>>)), Returned(Exc)}
      [] kind = "model" -> {Raised(Exc), Returned(Rows(<<>>))}
      [] kind = "cat" -> {Raised(Exc)} \cup {Returned(Rows(q)) : q \in {b \in Bindings : Len(b) <= 1}}
      [] OTHER -> {Raised(Exc)} \cup {Returned(Rows(q)) : q \in Bindings}

\* A tracked future: the handler that made it, for a categorization the
\* list it is for and the number of the categorization.
Call(kind, key, inv) == [kind |-> kind, key |-> key, inv |-> inv]

\* The latest step: the handler or callback, the title of the message box
\* or toast it showed ("" for none), whether an exception left it, and for
\* a callback the result it was called with and how the work had ended.
FetchOp(op, notice, escaped, res, work) ==
    [op |-> op, notice |-> notice, escaped |-> escaped, res |-> res,
     work |-> work]

\* _set_status(text, ms), lines 406-409: with ms, a timer will write "Ready".
set_status(text, timed) ==
    status_lbl' = [text |-> text,
                   timers |-> IF timed THEN status_lbl.timers + 1 ELSE status_lbl.timers]

FetchStart(fetched, prefix) ==
    /\ fetched_nodes = fetched
    /\ prefix_var = prefix
    /\ progress = FALSE
    /\ status_lbl = [text |-> "Ready", timers |-> 0]
    /\ calls = <<>>
    /\ cat_results = <<>>
    /\ fetchBudget = MaxFetchOps
    /\ fetchOp = FetchOp("init", "", FALSE, Rows(<<>>), "")

trackerRest ==
    <<fut, workQueue, afterQueue, future_tasks, running, stop_flag, shut,
      destroyed, cbCount, cbArg, accessLog>>

\* The user edits the repository URL or the prefix.
edit_repo_url(u) ==
    /\ fetchBudget > 0
    /\ u # repo_url
    /\ UNCHANGED <<trackerRest, storeVars, tagVars, treeVars, editorVars,
                   poolVars>>
    /\ repo_url' = u
    /\ fetchBudget' = fetchBudget - 1
    /\ fetchOp' = FetchOp("edit", "", FALSE, Rows(<<>>), "")
    /\ UNCHANGED <<fetched_nodes, prefix_var, progress, status_lbl, calls, cat_results>>

edit_prefix(prefix) ==
    /\ fetchBudget > 0
    /\ prefix # prefix_var
    /\ UNCHANGED notFetch
    /\ prefix_var' = prefix
    /\ fetchBudget' = fetchBudget - 1
    /\ fetchOp' = FetchOp("edit", "", FALSE, Rows(<<>>), "")
    /\ UNCHANGED <<fetched_nodes, progress, status_lbl, calls, cat_results>>

\* The timer of a _set_status(text, ms) fires (line 409).
status_timer ==
    /\ fetchBudget > 0
    /\ status_lbl.timers > 0
    /\ UNCHANGED notFetch
    /\ status_lbl' = [text |-> "Ready", timers |-> status_lbl.timers - 1]
    /\ fetchBudget' = fetchBudget - 1
    /\ fetchOp' = FetchOp("timer", "", FALSE, Rows(<<>>), "")
    /\ UNCHANGED <<fetched_nodes, prefix_var, progress, calls, cat_results>>

\* _test_connection, lines 1092-1109
test_connection ==
    /\ fetchBudget > 0
    /\ UNCHANGED notFetch
    /\ fetchBudget' = fetchBudget - 1
    /\ IF repo_url = ""
       THEN /\ fetchOp' = FetchOp("test_connection", "Missing URL", FALSE, Rows(<<>>), "")
            /\ UNCHANGED <<progress, status_lbl, calls>>
       ELSE /\ progress' = TRUE
            /\ set_status("Testing connection...", FALSE)
            /\ calls' = Append(calls, Call("test", "", 0))
            /\ fetchOp' = FetchOp("test_connection", "", FALSE, Rows(<<>>), "")
    /\ UNCHANGED <<fetched_nodes, prefix_var, cat_results>>

\* _fetch_nodes, lines 1146-1166.  The prefix holds '<' when uri_base is
\* taken, so the except clause of lines 1155-1158 is never entered;
\* _run_sparql_query_bg (line 1165) raises when the URL is unset, after the
\* busy indicator was started.
fetch_nodes ==
    /\ fetchBudget > 0
    /\ UNCHANGED notFetch
    /\ fetchBudget' = fetchBudget - 1
    /\ LET prefix_str == py_strip(prefix_var) IN
       IF prefix_str = <<>> \/ ~Contains(prefix_str, "<") \/ ~Contains(prefix_str, ">")
       THEN /\ fetchOp' = FetchOp("fetch_nodes", "Invalid Prefix", FALSE, Rows(<<>>), "")
            /\ UNCHANGED <<progress, status_lbl, calls>>
       ELSE /\ progress' = TRUE
            /\ set_status("Fetching all nodes from repository...", FALSE)
            /\ IF repo_url = ""
               THEN /\ fetchOp' = FetchOp("fetch_nodes", "", TRUE, Rows(<<>>), "")
                    /\ UNCHANGED calls
               ELSE /\ calls' = Append(calls, Call("fetch", uri_base(prefix_str), 0))
                    /\ fetchOp' = FetchOp("fetch_nodes", "", FALSE, Rows(<<>>), "")
    /\ UNCHANGED <<fetched_nodes, prefix_var, cat_results>>

\* The lists of a categorization, in the order of `queries` (lines 1197-1201).
CatKinds == <<"equipment", "sub_equipment", "asset">>

\* _categorize_nodes, lines 1189-1220: the loop of lines 1218-1220 stops at
\* the first _run_sparql_query_bg that raises.
categorize_nodes ==
    /\ fetchBudget > 0
    /\ UNCHANGED notFetch
    /\ fetchBudget' = fetchBudget - 1
    /\ IF fetched_nodes.all = <<>>
       THEN /\ fetchOp' = FetchOp("categorize_nodes", "No Nodes", FALSE, Rows(<<>>), "")
            /\ UNCHANGED <<progress, status_lbl, calls, cat_results>>
       ELSE /\ progress' = TRUE
            /\ set_status("Categorizing nodes by type...", FALSE)
            /\ cat_results' = Append(cat_results, <<>>)
            /\ IF repo_url = ""
               THEN /\ fetchOp' = FetchOp("categorize_nodes", "", TRUE, Rows(<<>>), "")
                    /\ UNCHANGED calls
               ELSE /\ calls' = calls \o [k \in DOMAIN CatKinds |->
                                            Call("cat", CatKinds[k], Len(cat_results) + 1)]
                    /\ fetchOp' = FetchOp("categorize_nodes", "", FALSE, Rows(<<>>), "")
    /\ UNCHANGED <<fetched_nodes, prefix_var>>

\* _update_data_model, lines 1229-1249, with rows of the node list
\* selected (the list shows fetched_nodes['all']).
update_data_model ==
    /\ fetchBudget > 0
    /\ fetched_nodes.all # <<>>
    /\ UNCHANGED notFetch
    /\ fetchBudget' = fetchBudget - 1
    /\ IF repo_url = "" \/ py_strip(prefix_var) = <<>>
       THEN /\ fetchOp' = FetchOp("update_data_model", "Missing Data", FALSE, Rows(<<>>), "")
            /\ UNCHANGED <<progress, status_lbl, calls>>
       ELSE /\ progress' = TRUE
            /\ set_status("Fetching data model...", FALSE)
            /\ calls' = Append(calls, Call("model", "", 0))
            /\ fetchOp' = FetchOp("update_data_model", "", FALSE, Rows(<<>>), "")
    /\ UNCHANGED <<fetched_nodes, prefix_var, cat_results>>

\* _after_test_connection, lines 1111-1118
after_test_connection(res, work) ==
    /\ progress' = FALSE
    /\ IF IsException(res)
       THEN /\ set_status("Connection failed.", TRUE)
            /\ fetchOp' = FetchOp("after_test_connection", "Connection Failed", FALSE, res, work)
       ELSE /\ set_status("Connection OK", TRUE)
            /\ fetchOp' = FetchOp("after_test_connection", "Connection OK", FALSE, res, work)
    /\ UNCHANGED <<fetched_nodes, cat_results>>

\* A callback that takes an exception for an empty result.
after_fetch_nodes_as_empty(res, work) ==
    /\ progress' = FALSE
    /\ fetched_nodes' =
          [fetched_nodes EXCEPT
             !.all = py_sorted({local_name(res.rows[i]) : i \in DOMAIN res.rows})]
    /\ set_status("Nodes fetched.", TRUE)
    /\ fetchOp' = FetchOp("after_fetch_nodes", "Fetched", FALSE, res, work)
    /\ UNCHANGED cat_results

\* _after_fetch_nodes, lines 1168-1178
after_fetch_nodes(res, work) ==
    /\ progress' = FALSE
    /\ IF IsException(res)
       THEN /\ set_status("Failed to fetch nodes.", TRUE)
            /\ fetchOp' = FetchOp("after_fetch_nodes", "Fetch Failed", FALSE, res, work)
            /\ UNCHANGED fetched_nodes
       ELSE /\ fetched_nodes' =
                  [fetched_nodes EXCEPT
                     !.all = py_sorted({local_name(res.rows[i]) : i \in DOMAIN res.rows})]
            /\ set_status("Nodes fetched.", TRUE)
            /\ fetchOp' = FetchOp("after_fetch_nodes", "Fetched", FALSE, res, work)
    /\ UNCHANGED cat_results

\* results[kind] = ...: a new key goes last, a known key keeps its place.
DictPut(d, k, v) ==
    IF \E i \in DOMAIN d : d[i].k = k
    THEN [i \in DOMAIN d |-> IF d[i].k = k THEN [k |-> k, v |-> v] ELSE d[i]]
    ELSE Append(d, [k |-> k, v |-> v])

RECURSIVE dict_update(_, _)
\* self.fetched_nodes.update(results)
dict_update(fetched, d) ==
    IF d = <<>> THEN fetched
    ELSE dict_update([fetched EXCEPT ![Head(d).k] = Head(d).v], Tail(d))

\* A cb whose results dict is one for all categorizations.
categorize_cb_shared_results(kind, inv, res, work) ==
    LET results == DictPut(cat_results[1], kind,
                           IF IsException(res) THEN <<>>
                           ELSE [i \in DOMAIN res.rows |-> local_name(res.rows[i])])
    IN  /\ cat_results' = [cat_results EXCEPT ![1] = results]
        /\ IF Len(results) = 3
           THEN /\ progress' = FALSE
                /\ fetched_nodes' = dict_update(fetched_nodes, results)
                /\ set_status("Categorization complete.", TRUE)
                /\ fetchOp' = FetchOp("categorize_cb", "Categorized", FALSE, res, work)
           ELSE /\ fetchOp' = FetchOp("categorize_cb", "", FALSE, res, work)
                /\ UNCHANGED <<progress, fetched_nodes, status_lbl>>

\* cb of _categorize_nodes.make_cb(kind), lines 1206-1215, for the
\* categorization number inv
categorize_cb(kind, inv, res, work) ==
    LET results == DictPut(cat_results[inv], kind,
                           IF IsException(res) THEN <<>>
                           ELSE [i \in DOMAIN res.rows |-> local_name(res.rows[i])])
    IN  /\ cat_results' = [cat_results EXCEPT ![inv] = results]
        /\ IF Len(results) = 3
           THEN /\ progress' = FALSE
                /\ fetched_nodes' = dict_update(fetched_nodes, results)
                /\ set_status("Categorization complete.", TRUE)
                /\ fetchOp' = FetchOp("categorize_cb", "Categorized", FALSE, res, work)
           ELSE /\ fetchOp' = FetchOp("categorize_cb", "", FALSE, res, work)
                /\ UNCHANGED <<progress, fetched_nodes, status_lbl>>

\* after of _update_data_model, lines 1250-1255 (the graph it draws is not
\* part of the model)
after_update_data_model(res, work) ==
    /\ progress' = FALSE
    /\ IF IsException(res)
       THEN /\ set_status("Error loading model.", TRUE)
            /\ fetchOp' = FetchOp("after_update_data_model", "SPARQL Error", FALSE, res, work)
       ELSE /\ fetchOp' = FetchOp("after_update_data_model", "", FALSE, res, work)
            /\ UNCHANGED status_lbl
    /\ UNCHANGED <<fetched_nodes, cat_results>>

\* The work of the k-th tracked future ends with `out`; done of
\* _track_future takes the result or the exception and the main loop runs
\* the callback with it (the tracker machine has these steps one by one).
call_done(k, out) ==
    /\ fetchBudget > 0
    /\ k \in DOMAIN calls
    /\ out \in CallOutcomes(calls[k].kind)
    /\ UNCHANGED notFetch
    /\ fetchBudget' = fetchBudget - 1
    /\ calls' = [i \in 1..(Len(calls) - 1) |-> IF i < k THEN calls[i] ELSE calls[i + 1]]
    /\ LET res == TrackDoneRes(out).res IN
       CASE calls[k].kind = "test" -> after_test_connection(res, out.how)
         [] calls[k].kind = "fetch" -> after_fetch_nodes(res, out.how)
         [] calls[k].kind = "cat" -> categorize_cb(calls[k].key, calls[k].inv, res, out.how)
         [] calls[k].kind = "model" -> after_update_data_model(res, out.how)
    /\ UNCHANGED prefix_var

FetchNext ==
    \/ \E u \in {"", "http://repo"} : edit_repo_url(u)
    \/ \E prefix \in Prefixes : edit_prefix(prefix)
    \/ status_timer
    \/ test_connection
    \/ fetch_nodes
    \/ categorize_nodes
    \/ update_data_model
    \/ \E k \in DOMAIN calls :
         \E out \in CallOutcomes(calls[k].kind) : call_done(k, out)


(***************************************************************************)
(*                         THE EDITOR MACHINE                              *)
(*                                                                         *)
(* The datasheet editor: the tag selector with its two text panels, the    *)
(* preview of a property, the drag copy of the previewed value into the    *)
(* embedded workbook, and the closing of the window.  Every event runs on  *)
(* the UI thread.  The text of a Text widget is kept as the insertions     *)
(* that made it, each with its format and its arguments; the labels, the   *)
(* status line, the cursor and the window geometry are not part of this    *)
(* machine.                                                                *)
(***************************************************************************)

\* Bound: how many events one run of the editor machine takes.
MaxEditorOps == 6

\* self.current_xl_db: the workbook's name and its Saved flag.
Book(name, saved) == [name |-> name, saved |-> saved]

\* self.current_xl_db is None
NoBook == Book(NoStr, TRUE)

\* One insert into a Text widget.
Piece(fmt, args) == [fmt |-> fmt, args |-> args]

\* A tracked future of the editor: "props" for the job of
\* _display_tag_info_in_editor_view (with the tag and the nodes its closure
\* holds), "preview" for the query of _on_property_double_click.
EditorCall(kind, tag, nodes) == [kind |-> kind, tag |-> tag, nodes |-> nodes]

\* The latest step: the handler or callback, the text it was about (a tag,
\* a dragged value, a file), how it ended, and for a callback its result.
EditorOp(op, arg, how, res) == [op |-> op, arg |-> arg, how |-> how, res |-> res]

\* The properties the repository holds for each node, as the values of ?p.
RepoProps(n) ==
    IF n = n1 THEN {<<"u", "#", "p", "1">>, <<"u", "#", "a">>}
    ELSE {<<"u", "#", "p", "2">>}

\* line 1643: ["hasValue", "hasUnit", "a", "type"]
ExcludedProps ==
    {<<"h", "a", "s", "V", "a", "l", "u", "e">>, <<"h", "a", "s", "U", "n", "i", "t">>,
     <<"a">>, <<"t", "y", "p", "e">>}

\* job of _display_tag_info_in_editor_view, lines 1626-1645: `answered` are
\* the nodes whose query gave its bindings; a node whose query raised or
\* timed out is skipped.
job(nodes, answered) ==
    py_sorted({split_last(p, "#") :
                 p \in UNION {RepoProps(n) : n \in SeqToSet(nodes) \cap answered}}
              \ ExcludedProps)

\* What the preview query of lines 1676-1680 returns: at most one row with
\* a value and, optionally, a unit.
PreviewRows ==
    {<<[value |-> <<"4">>, unit |-> <<"m">>]>>,
     <<[value |-> <<>>, unit |-> <<"m">>]>>}

\* The outcomes of the work behind a tracked future of the editor.
EditorOutcomes(call) ==
    IF call.kind = "props"
    THEN {Returned(job(call.nodes, answered)) :
             answered \in (IF repo_url = "" THEN {{}} ELSE SUBSET SeqToSet(call.nodes))}
    ELSE {Raised(Exc)} \cup {Returned(Rows(q)) : q \in PreviewRows}

\* The property names a double click finds in the properties panel.
PropNames == {<<"p", "2">>}

EditorStart ==
    /\ is_dragging = FALSE
    /\ drag_data = NoStr
    /\ drag_source_type = None
    /\ poll_timers = 0
    /\ live_value_button = NoStr
    /\ live_unit_button = NoStr
    /\ xl_app = FALSE
    /\ current_xl_db = NoBook
    /\ tag_text_embed = <<>>
    /\ properties_text_embed = <<>>
    /\ editor_calls = <<>>
    /\ editorBudget = MaxEditorOps
    /\ editorOp = EditorOp("init", NoStr, "", <<>>)

\* What no event of the editor touches.
notEditor == <<storeVars, treeVars, fetchVars, poolVars>>

tagLists == <<assigned_files_listbox, unassigned_files_listbox, datasheet_combobox>>

\* A cancel that keeps what was dragged.
cancel_drag_mode_keeps_data ==
    /\ is_dragging' = FALSE
    /\ drag_data' = drag_data
    /\ drag_source_type' = None

\* _cancel_drag_mode, lines 1395-1402
cancel_drag_mode ==
    /\ is_dragging' = FALSE
    /\ drag_data' = NoStr
    /\ drag_source_type' = None


\* _initiate_drag_copy(value_to_drag, source_type), lines 1381-1393, as the
\* command of a live button (lines 535 and 539) calls it.  The direct call
\* of _poll_for_drop (line 1393) is made with the mouse over the button,
\* not over the workbook: it ends by scheduling the timer.
initiate_drag_copy(source_type) ==
    /\ editorBudget > 0 /\ ~destroyed
    /\ UNCHANGED <<notEditor, trackerVars, tagVars>>
    /\ editorBudget' = editorBudget - 1
    /\ UNCHANGED <<live_value_button, live_unit_button, xl_app, current_xl_db,
                   tag_text_embed, properties_text_embed, editor_calls>>
    /\ LET value_to_drag == IF source_type = "value" THEN live_value_button
                            ELSE live_unit_button
       IN  IF value_to_drag \in {NoStr, <<>>}
           THEN /\ editorOp' = EditorOp("initiate_drag_copy", value_to_drag,
                                        "No Value", <<>>)
                /\ UNCHANGED <<is_dragging, drag_data, drag_source_type,
                               poll_timers>>
           ELSE IF is_dragging /\ drag_source_type = source_type
           THEN /\ cancel_drag_mode
                /\ editorOp' = EditorOp("initiate_drag_copy", value_to_drag,
                                        "cancelled", <<>>)
                /\ UNCHANGED poll_timers
           ELSE /\ is_dragging' = TRUE
                /\ drag_data' = value_to_drag
                /\ drag_source_type' = source_type
                /\ poll_timers' = poll_timers + 1
                /\ editorOp' = EditorOp("initiate_drag_copy", value_to_drag,
                                        "dragging", <<>>)

\* A timer of line 1428 fires: _poll_for_drop, lines 1404-1428.  `at` says
\* where the poll finds the mouse: "away" (no button pressed, or not over
\* the workbook, or over no range), "cell" (the value is written and the
\* workbook saved), "no_save" (the value is written and the save raises),
\* "no_cell" (RangeFromPoint raises).  Without an Excel instance or a
\* workbook line 1414 or 1416 raises.  When no drag is on, the mouse is
\* not looked at.
poll_for_drop(at) ==
    /\ editorBudget > 0 /\ ~destroyed
    /\ poll_timers > 0
    /\ ~is_dragging => at = "away"
    /\ UNCHANGED <<notEditor, trackerVars, tagVars>>
    /\ editorBudget' = editorBudget - 1
    /\ UNCHANGED <<live_value_button, live_unit_button, xl_app,
                   tag_text_embed, properties_text_embed, editor_calls>>
    /\ IF ~is_dragging
       THEN /\ poll_timers' = poll_timers - 1
            /\ editorOp' = EditorOp("poll_for_drop", drag_data, "not dragging", <<>>)
            /\ UNCHANGED <<is_dragging, drag_data, drag_source_type,
                           current_xl_db>>
       ELSE IF at = "away"
       THEN /\ poll_timers' = poll_timers
            /\ editorOp' = EditorOp("poll_for_drop", drag_data, "polling", <<>>)
            /\ UNCHANGED <<is_dragging, drag_data, drag_source_type,
                           current_xl_db>>
       ELSE LET open == xl_app /\ current_xl_db # NoBook
                pasted == open /\ at = "cell"
            IN  /\ poll_timers' = poll_timers - 1
                /\ current_xl_db' =
                      IF open /\ at \in {"cell", "no_save"}
                      THEN Book(current_xl_db.name, at = "cell") ELSE current_xl_db
                /\ cancel_drag_mode
                /\ editorOp' = EditorOp("poll_for_drop", drag_data,
                                        IF pasted THEN "Pasted" ELSE "Drop Error", <<>>)

\* _load_file_from_list and _load_datasheet_from_functionalities_tab (lines
\* 1494-1507) with _load_excel_file, lines 1333-1357, for a row of a list
\* of datasheets.  `opens` says how Excel answers: "ok", "no_app" (xw.App
\* raises; only when there is no instance yet) or "no_book" (books.open
\* raises).  The embedding of the window (line 1344) is not modelled.
load_excel_file(file_name, opens) ==
    /\ editorBudget > 0 /\ ~destroyed
    /\ opens = "no_app" => ~xl_app
    /\ file_name \notin disk => opens = "ok"
    /\ UNCHANGED <<notEditor, trackerVars, tagVars>>
    /\ editorBudget' = editorBudget - 1
    /\ UNCHANGED <<live_value_button, live_unit_button, poll_timers,
                   tag_text_embed, properties_text_embed, editor_calls>>
    /\ IF file_name \notin disk
       THEN /\ editorOp' = EditorOp("load_excel_file", file_name, "File Not Found", <<>>)
            /\ UNCHANGED <<is_dragging, drag_data, drag_source_type, xl_app,
                           current_xl_db>>
       ELSE /\ cancel_drag_mode
            /\ IF opens = "ok"
               THEN /\ xl_app' = TRUE
                    /\ current_xl_db' = Book(file_name, TRUE)
                    /\ editorOp' = EditorOp("load_excel_file", file_name, "loaded", <<>>)
               ELSE \* the except clause: _cleanup_xlwings, lines 1369-1378
                    /\ xl_app' = FALSE
                    /\ current_xl_db' = NoBook
                    /\ editorOp' = EditorOp("load_excel_file", file_name,
                                            "Excel Load Error", <<>>)

\* The user changes a cell of the open workbook in Excel.
excel_edit ==
    /\ editorBudget > 0 /\ ~destroyed
    /\ xl_app /\ current_xl_db # NoBook /\ current_xl_db.saved
    /\ UNCHANGED <<notEditor, trackerVars, tagVars>>
    /\ editorBudget' = editorBudget - 1
    /\ current_xl_db' = Book(current_xl_db.name, FALSE)
    /\ editorOp' = EditorOp("excel_edit", current_xl_db.name, "", <<>>)
    /\ UNCHANGED <<is_dragging, drag_data, drag_source_type, poll_timers,
                   live_value_button, live_unit_button, xl_app, tag_text_embed,
                   properties_text_embed, editor_calls>>

\* _display_tag_info_in_editor_view(tag_name), lines 1605-1655, up to
\* _track_future: what it leaves in the two panels and the tracked futures.
display_tag_info_in_editor_view(tag_name) ==
    LET known == HasKey(tag_associations, tag_name)
        nodes == IF known THEN NodesOf(Get(tag_associations, tag_name)) ELSE <<>>
    IN  /\ tag_text_embed' =
              IF known THEN <<Piece("Tag: {tag_name}", <<tag_name>>)>>
              ELSE <<Piece("Tag not found.", <<>>)>>
        /\ properties_text_embed' =
              IF ~known THEN <<>>
              ELSE IF nodes = <<>> THEN <<Piece("Tag has no associated nodes.", <<>>)>>
              ELSE <<Piece("Associated Nodes: {node_list}", nodes)>>
        /\ editor_calls' = IF nodes = <<>> THEN editor_calls
                           ELSE Append(editor_calls, EditorCall("props", tag_name, nodes))

\* _on_tag_selected_in_editor_tab, lines 1587-1603, for the tag picked in
\* the read-only tag_selector_combobox.  The event's record keeps, as its
\* node, the active node the handler found.
on_tag_selected_in_editor_tab(tag_name) ==
    /\ tagBudget > 0 /\ editorBudget > 0 /\ ~destroyed
    /\ UNCHANGED <<notEditor, trackerVars>>
    /\ Contains(tag_selector_combobox.values, tag_name)
    /\ tag_selector_combobox' = [tag_selector_combobox EXCEPT !.current = tag_name]
    /\ cancel_drag_mode
    /\ set_active_node(
          node_of_selected_tag(NodesOf(GetOr(tag_associations, tag_name, Dict(<<>>)))))
    /\ display_tag_info_in_editor_view(tag_name)
    /\ tagOp' = Op("select_tag", tag_name, active_node, NoStr, FALSE, TRUE, FALSE)
    /\ editorOp' = EditorOp("on_tag_selected_in_editor_tab", tag_name, "", <<>>)
    /\ UNCHANGED <<tag_associations, tags_file, disk, assigned_files_listbox,
                   unassigned_files_listbox, datasheet_combobox>>
    /\ UNCHANGED <<poll_timers, live_value_button, live_unit_button, xl_app,
                   current_xl_db>>
    /\ tagBudget' = tagBudget - 1
    /\ editorBudget' = editorBudget - 1

\* _on_property_double_click, lines 1657-1697, on a line of the properties
\* panel that holds the word `prop`.  _run_sparql_query_bg (line 1681)
\* raises RuntimeError when the repository URL is unset; the except clause
\* of line 1696 does not catch it.
on_property_double_click(prop) ==
    /\ editorBudget > 0 /\ ~destroyed
    /\ properties_text_embed # <<>>
    /\ UNCHANGED <<notEditor, trackerVars, tagVars>>
    /\ editorBudget' = editorBudget - 1
    /\ UNCHANGED <<is_dragging, drag_data, drag_source_type, poll_timers, xl_app,
                   current_xl_db, tag_text_embed, properties_text_embed>>
    /\ IF active_node = NoStr
       THEN /\ live_value_button' = NoStr
            /\ live_unit_button' = NoStr
            /\ editorOp' = EditorOp("on_property_double_click", prop, "Info", <<>>)
            /\ UNCHANGED editor_calls
       ELSE /\ UNCHANGED <<live_value_button, live_unit_button>>
            /\ IF repo_url = ""
               THEN /\ editorOp' = EditorOp("on_property_double_click", prop,
                                            "raised", <<>>)
                    /\ UNCHANGED editor_calls
               ELSE /\ editor_calls' =
                          Append(editor_calls, EditorCall("preview", prop, <<active_node>>))
                    /\ editorOp' = EditorOp("on_property_double_click", prop,
                                            "submitted", <<>>)

\* An `after` that drops the result of a tag that is no longer selected.
after_props_if_current(call, res) ==
    /\ properties_text_embed' =
          IF call.tag # tag_selector_combobox.current THEN properties_text_embed
          ELSE Append(properties_text_embed,
                      IF res = <<>> THEN Piece("(No direct properties found)", <<>>)
                      ELSE Piece("- {p}", res))
    /\ editorOp' = EditorOp("after_props", call.tag, "", res)
    /\ UNCHANGED <<live_value_button, live_unit_button>>

\* after of _display_tag_info_in_editor_view, lines 1647-1654; the job
\* returns a list, so res is no exception.
after_props(call, res) ==
    /\ properties_text_embed' =
          Append(properties_text_embed,
                 IF res = <<>> THEN Piece("(No direct properties found)", <<>>)
                 ELSE Piece("- {p}", res))
    /\ editorOp' = EditorOp("after_props", call.tag, "", res)
    /\ UNCHANGED <<live_value_button, live_unit_button>>

\* after of _on_property_double_click, lines 1682-1694
after_preview(call, res) ==
    LET none == IsException(res) \/ res.rows = <<>> IN
    /\ live_value_button' = IF none THEN NoStr ELSE res.rows[1].value
    /\ live_unit_button' = IF none THEN NoStr ELSE res.rows[1].unit
    /\ editorOp' = EditorOp("after_preview", call.tag,
                            IF none THEN "none" ELSE "value", <<>>)
    /\ UNCHANGED properties_text_embed

\* The work of the k-th tracked future of the editor ends with `out`, and
\* the main loop runs its callback (the tracker machine has the steps of
\* the delivery one by one).
editor_call_done(k, out) ==
    /\ editorBudget > 0 /\ ~destroyed
    /\ k \in DOMAIN editor_calls
    /\ out \in EditorOutcomes(editor_calls[k])
    /\ UNCHANGED <<notEditor, trackerVars, tagVars>>
    /\ editorBudget' = editorBudget - 1
    /\ editor_calls' = [i \in 1..(Len(editor_calls) - 1) |->
                          IF i < k THEN editor_calls[i] ELSE editor_calls[i + 1]]
    /\ IF editor_calls[k].kind = "props"
       THEN after_props(editor_calls[k], TrackDoneRes(out).res)
       ELSE after_preview(editor_calls[k], TrackDoneRes(out).res)
    /\ UNCHANGED <<is_dragging, drag_data, drag_source_type, poll_timers, xl_app,
                   current_xl_db, tag_text_embed>>

\* on_close, lines 256-271.  res is the answer to "Save Changes?", asked
\* only for an open workbook with unsaved changes; save_ok says whether
\* the workbook's save works and dumps_ok whether the dumps of
\* _persist_state work.  The finally block runs however the try block
\* ends: after the return of line 265, and after an exception.  An answer
\* that is not read takes one value.
on_close(res, save_ok, dumps_ok) ==
    /\ editorBudget > 0
    /\ UIIdle /\ ~destroyed
    /\ LET asked == xl_app /\ current_xl_db # NoBook /\ ~current_xl_db.saved IN
        /\ ~asked => res = "no"
        /\ res # "yes" => save_ok
        /\ (asked /\ (res = "cancel" \/ ~save_ok)) => dumps_ok
    /\ UNCHANGED <<notEditor, repo_url>>
    /\ LET asked == xl_app /\ current_xl_db # NoBook /\ ~current_xl_db.saved
           saves == asked /\ res = "yes"
           cleans == IF asked THEN res = "no" \/ (res = "yes" /\ save_ok) ELSE TRUE
       IN  /\ current_xl_db' = IF saves /\ save_ok THEN Book(current_xl_db.name, TRUE)
                               ELSE current_xl_db
           /\ xl_app' = IF cleans THEN FALSE ELSE xl_app
           /\ IF cleans THEN persist_state(tag_associations, dumps_ok)
              ELSE UNCHANGED tags_file
           /\ editorOp' = EditorOp("on_close", current_xl_db.name,
                                   IF asked THEN res ELSE "not asked", <<>>)
    /\ shutdown_and_destroy
    /\ UNCHANGED <<tag_associations, disk, tagLists, tag_selector_combobox,
                   active_node, tagBudget, tagOp>>
    /\ UNCHANGED <<is_dragging, drag_data, drag_source_type, poll_timers,
                   live_value_button, live_unit_button, tag_text_embed,
                   properties_text_embed, editor_calls>>
    /\ editorBudget' = editorBudget - 1

\* The file lists show the datasheets of the library and of the registry
\* (one of which is no longer in the library).
EditorFiles ==
    SeqToSet(assigned_files_listbox) \cup SeqToSet(unassigned_files_listbox)
        \cup assigned_set(tag_associations)

EditorNext ==
    \/ \E t \in SeqToSet(tag_selector_combobox.values) : on_tag_selected_in_editor_tab(t)
    \/ \E prop \in PropNames : on_property_double_click(prop)
    \/ \E k \in DOMAIN editor_calls :
         \E out \in EditorOutcomes(editor_calls[k]) : editor_call_done(k, out)
    \/ \E source_type \in {"value", "unit"} : initiate_drag_copy(source_type)
    \/ \E at \in {"away", "cell", "no_save", "no_cell"} : poll_for_drop(at)
    \/ \E f \in EditorFiles, opens \in {"ok", "no_app", "no_book"} :
         load_excel_file(f, opens)
    \/ excel_edit
    \/ \E res \in {"yes", "no", "cancel"}, save_ok \in BOOLEAN, dumps_ok \in BOOLEAN :
         on_close(res, save_ok, dumps_ok)


(***************************************************************************)
(*                          THE POOL MACHINE                               *)
(*                                                                         *)
(* The worker slots of the executor under the jobs of                      *)
(* _display_tag_info_in_editor_view.  A job runs on a pool thread, submits *)
(* the query of a node to the same executor and waits for its result on    *)
(* that thread.  The tags of this machine have one node each.  (The        *)
(* tracker machine has the futures and their done-callbacks in detail,     *)
(* for fewer futures than there are workers.)                              *)
(***************************************************************************)

\* Bound: how many tags with a node the user selects in one run.
MaxJobs == 4

JobIds == 1..MaxJobs

\* A job: its future (none, pending, running, finished), where a running
\* job stands (wait), the future of its nested query (none,
\* pending, running, finished) and its callback (none, scheduled, ran).
Job(st, pc, nested, cb) == [st |-> st, pc |-> pc, nested |-> nested, cb |-> cb]

NoJob == Job("none", None, "none", "none")

\* A work item of the executor's queue.
WorkItem(kind, j) == [kind |-> kind, j |-> j]

\* The pool threads that are running a work item.
BusyThreads ==
    Cardinality({j \in JobIds : tag_jobs[j].st = "running"}) +
    Cardinality({j \in JobIds : tag_jobs[j].nested = "running"})

\* Every worker is held by a job that waits for a query still in the queue.
AllHeld(js) ==
    Cardinality({j \in JobIds : js[j].st = "running" /\ js[j].pc = "wait"
                                  /\ js[j].nested = "pending"}) = max_workers

PoolStart ==
    /\ tag_jobs = [j \in JobIds |-> NoJob]
    /\ executor_queue = <<>>
    /\ all_held = FALSE

notPool == <<trackerVars, storeVars, tagVars, treeVars, fetchVars, editorVars>>

\* _display_tag_info_in_editor_view, lines 1646 and 1655, for one more tag
\* with a node: executor.submit(job) and _track_future.
submit_job(j) ==
    /\ UNCHANGED notPool
    /\ tag_jobs[j].st = "none"
    /\ \A i \in JobIds : i < j => tag_jobs[i].st # "none"
    /\ tag_jobs' = [tag_jobs EXCEPT ![j] = Job("pending", None, "none", "none")]
    /\ executor_queue' = Append(executor_queue, WorkItem("job", j))
    /\ UNCHANGED all_held

\* A result() that waits until the query has finished.
result_without_timeout(nested_st, late) == nested_st = "finished"

\* .result(timeout=25), line 1637: the call ends when the query has
\* finished, and after 25 seconds (`late`) whatever the query's state.
result_with_timeout(nested_st, late) == nested_st = "finished" \/ late

\* An idle pool thread takes the oldest work item.  A nested query starts
\* at line 1125.  A job runs from line 1627 to its wait in line 1637:
\* self._run_sparql_query_bg(q) submits the query of the node to the
\* executor; when the repository URL is unset it raises instead, the node
\* is skipped and the job returns (line 1645), which frees the thread and
\* lets done of _track_future (lines 1134-1142) schedule the callback.
worker_start ==
    /\ UNCHANGED notPool
    /\ executor_queue # <<>>
    /\ BusyThreads < max_workers
    /\ LET item == Head(executor_queue) IN
       IF item.kind = "nested"
       THEN /\ tag_jobs' = [tag_jobs EXCEPT ![item.j].nested = "running"]
            /\ executor_queue' = Tail(executor_queue)
            /\ UNCHANGED all_held
       ELSE IF repo_url = ""
       THEN /\ tag_jobs' = [tag_jobs EXCEPT ![item.j] = Job("finished", None, "none",
                                                            "scheduled")]
            /\ executor_queue' = Tail(executor_queue)
            /\ UNCHANGED all_held
       ELSE /\ tag_jobs' = [tag_jobs EXCEPT ![item.j] = Job("running", "wait", "pending",
                                                            "none")]
            /\ executor_queue' = Append(Tail(executor_queue), WorkItem("nested", item.j))
            /\ all_held' = (all_held \/ AllHeld(tag_jobs'))

\* job, lines 1636-1645: the wait ends, with the bindings or with an
\* exception that is caught (line 1638); the tag has one node, so the job
\* returns: the pool thread is free again, and done of _track_future
\* schedules the callback.
job_return(j, late) ==
    /\ UNCHANGED notPool
    /\ tag_jobs[j].st = "running" /\ tag_jobs[j].pc = "wait"
    /\ result_with_timeout(tag_jobs[j].nested, late)
    /\ tag_jobs' = [tag_jobs EXCEPT ![j].st = "finished", ![j].pc = None,
                                    ![j].cb = "scheduled"]
    /\ UNCHANGED <<executor_queue, all_held>>

\* run of _run_sparql_query_bg, lines 1124-1128, returns or raises.
nested_finish(j) ==
    /\ UNCHANGED notPool
    /\ tag_jobs[j].nested = "running"
    /\ tag_jobs' = [tag_jobs EXCEPT ![j].nested = "finished"]
    /\ UNCHANGED <<executor_queue, all_held>>

\* The main loop runs the callback `after` of the job (lines 1647-1654).
run_callback(j) ==
    /\ UNCHANGED notPool
    /\ tag_jobs[j].cb = "scheduled"
    /\ tag_jobs' = [tag_jobs EXCEPT ![j].cb = "ran"]
    /\ UNCHANGED <<executor_queue, all_held>>

PoolNext ==
    \/ \E j \in JobIds : submit_job(j)
    \/ worker_start
    \/ \E j \in JobIds, late \in BOOLEAN : job_return(j, late)
    \/ \E j \in JobIds : nested_finish(j)
    \/ \E j \in JobIds : run_callback(j)

\* The threads of the pool run, a running query ends (the repository
\* answers or the connection fails), the 25 seconds of a wait pass, and the
\* main loop gets to every scheduled callback.
PoolFairness ==
    /\ WF_vars(worker_start)
    /\ \A j \in JobIds :
          /\ WF_vars(job_return(j, TRUE))
          /\ WF_vars(nested_finish(j))
          /\ WF_vars(run_callback(j))


(***************************************************************************)
(*                     CLAIMS ABOUT THE TRACKER                            *)
(***************************************************************************)

\* The argument the callback of a future is to receive: the value its work
\* returned, the exception it raised, or the CancelledError of a cancel.
ExpectedArg(out) == out.val

DoneRan(f) == fut[f].cb = "done"

\* C1 (as stated): for every future passed to _track_future, whether its
\* work returns, raises or is cancelled, once done() has run the callback
\* has been scheduled exactly once with the return value or the exception.
C1_ScheduledExactlyOnce ==
    \A f \in FutIds :
        DoneRan(f) => cbCount[f] = 1 /\ cbArg[f] = ExpectedArg(fut[f].out)

\* C1 (amended): the callback is never scheduled twice; when done() runs
\* while the main window exists it is scheduled exactly once, with the
\* work's return value, its exception or the CancelledError; when done()
\* runs after on_close destroyed the window it is not scheduled at all.
C1_ScheduledOnceWhileWindowExists ==
    \A f \in FutIds :
        /\ cbCount[f] <= 1
        /\ DoneRan(f) /\ fut[f].alive =>
              cbCount[f] = 1 /\ cbArg[f] = ExpectedArg(fut[f].out)
        /\ DoneRan(f) /\ ~fut[f].alive => cbCount[f] = 0

\* C1 witness: one future whose work raised and one that was cancelled have
\* both had their callback scheduled with the exception object.
C1_Witness ==
    /\ \E f \in FutIds : DoneRan(f) /\ fut[f].out = Raised("Exception")
                            /\ cbCount[f] = 1 /\ cbArg[f] = "Exception"
    /\ \E f \in FutIds : DoneRan(f) /\ fut[f].out = Cancelled
                            /\ cbCount[f] = 1 /\ cbArg[f] = "CancelledError"

SharedState == {"tag_associations", "tree", "settings", "future_tasks",
                "repo_var", "prefix_var"}

\* C3: no step of a worker thread (the submitted work, the future's
\* done-callback) reads or writes shared mutable application state.
C3_WorkersTouchNoSharedState ==
    \A a \in accessLog : a.thread = WorkerThread => a.var \notin SharedState

(***************************************************************************)
(*                      CLAIMS ABOUT THE STORE                             *)
(***************************************************************************)

\* c is what a dump of some document leaves when it is cut short.
IsTruncated(c) ==
    \E d \in StoreDocs :
        /\ Len(c) < Len(json_dumps(d))
        /\ c = SubSeq(json_dumps(d), 1, Len(c))

\* C4: at every point of a safe_json_dump, a dump that fails part-way
\* included, the target holds its complete previous content up to the
\* os.replace and the complete new document after it, and a reader that
\* loads the target during the dump reads the previous content whole.
C4_DumpIsAtomic ==
    /\ dump.pc = "writing" => fs[store_path] = dump.old
    /\ storeOp = "fail" => fs[store_path] = dump.old
    /\ storeOp = "replace" => fs[store_path] = json_dumps(dump.data)
    /\ loaded.done /\ loaded.during => loaded.content = dump.old

\* C4 witness: a reader loads the target while the temporary file holds a
\* part of the new document and the target holds an earlier document.
C4_Witness ==
    /\ loaded.done /\ loaded.during
    /\ dump.pos > 0 /\ dump.pos < Len(DumpText)
    /\ dump.old # Missing /\ dump.old # DumpText
    /\ loaded.content = dump.old

\* C5: safe_json_load never raises; it returns the parsed document when the
\* file holds a complete document, and the default when the file is missing
\* or its content is malformed.
C5_LoadNeverRaises ==
    loaded.done =>
        /\ ~loaded.raised
        /\ \A d \in StoreDocs : loaded.content = json_dumps(d) => loaded.val = d
        /\ loaded.content = Missing => loaded.val = loaded.default
        /\ IsTruncated(loaded.content) => loaded.val = loaded.default
        /\ \/ loaded.content = Missing
           \/ IsTruncated(loaded.content)
           \/ \E d \in StoreDocs : loaded.content = json_dumps(d)

\* C5 witness: a load of a malformed (cut short) file returned a default
\* other than {}.
C5_Witness ==
    /\ loaded.done
    /\ IsTruncated(loaded.content) /\ Len(loaded.content) > 1
    /\ loaded.default # Dict(<<>>)
    /\ loaded.val = loaded.default


(***************************************************************************)
(*                  CLAIMS ABOUT THE TAGS AND THE LIBRARY                  *)
(***************************************************************************)

\* A default no registry is equal to: a load that fell back on it shows.
NoRegistry == Str(<<"<default>">>)

Entries(reg) == {reg.v[i] : i \in DOMAIN reg.v}

NoRepeats(q) == \A i, j \in DOMAIN q : q[i] = q[j] => i = j

P1 == <<"P", "1">>
Qq == <<"q", QUOTE>>

\* C6: for every registry the application's operations reach, loading the
\* text that the dump writes for it gives back a mapping equal to the
\* registry (same tags, same lists, same order); and after an event whose
\* dump of the registry worked, tags.json holds exactly that text.
C6_RegistryRoundTrip ==
    /\ load_or_default(json_dumps(tag_associations), NoRegistry).val = tag_associations
    /\ tagOp.op = "save" /\ tagOp.ok =>
          load_or_default(tags_file, NoRegistry).val = tag_associations

\* C6 witness: _add_tag has dumped a registry that holds a tag with a quote
\* in its name, a node and a datasheet, and the file loads back equal to it.
C6_Witness ==
    /\ tagOp.op = "add_tag" /\ tagOp.ok /\ tagOp.tag = Qq
    /\ tags_file = json_dumps(tag_associations)
    /\ HasKey(tag_associations, Qq)
    /\ NodesOf(Get(tag_associations, Qq)) # <<>>
    /\ DatasheetsOf(Get(tag_associations, Qq)) # <<>>
    /\ load_or_default(tags_file, NoRegistry).val = tag_associations

\* What _add_tag of a listed identifier does to the list that holds it.
ReAddLeavesList(key, x) ==
    LET t == tagOp'.tag IN
    HasKey(tag_associations, t)
      /\ Contains(StrList(Get(Get(tag_associations, t), key)), x)
    => Get(Get(tag_associations', t), key) = Get(Get(tag_associations, t), key)

\* C7: no node list and no datasheet list of the registry holds the same
\* identifier twice, and an _add_tag with a node (a datasheet) that the tag
\* already lists leaves that list as it was.
C7_NoDuplicatesInLists ==
    /\ [](\A e \in Entries(tag_associations) :
             NoRepeats(NodesOf(e.v)) /\ NoRepeats(DatasheetsOf(e.v)))
    /\ [][tagOp'.op = "add_tag" /\ tagOp'.ok =>
             /\ ReAddLeavesList(c_nodes, tagOp'.node)
             /\ ReAddLeavesList(c_datasheets, tagOp'.file)]_vars

\* C7 witness: the session began with the two tags of the second start
\* registry; its first event was an _add_tag of tag P1 with node n2 and
\* datasheet n2_datasheet.XLS, both listed by P1 already; the registry
\* is the one the session began with.
C7_Witness ==
    /\ tagOp.op = "add_tag" /\ tagOp.ok
    /\ tagOp.tag = P1 /\ tagOp.node = n2 /\ tagOp.file = sheet0
    /\ tagBudget = MaxTagOps - 1
    /\ Len(tag_associations.v) = 2
    /\ NodesOf(Get(tag_associations, P1)) = <<n2>>
    /\ DatasheetsOf(Get(tag_associations, P1)) = <<sheet0>>

\* The registry after the removal of f, stated list by list: the same tags
\* in the same order, the same node lists, and every datasheet list as it
\* was but for f.
Untagged(before, after, f) ==
    /\ Keys(after) = Keys(before)
    /\ \A i \in DOMAIN before.v :
          /\ NodesOf(after.v[i].v) = NodesOf(before.v[i].v)
          /\ DatasheetsOf(after.v[i].v) =
                SelectSeq(DatasheetsOf(before.v[i].v), LAMBDA x : x # f)

\* C8 as stated: every confirmed _remove_file of f leaves f in no datasheet
\* list, changes no other entry of a datasheet list and no node list, and
\* deletes no tag.
C8_ConfirmedRemovalUntags ==
    [][tagOp'.op = "remove_file" /\ tagOp'.confirmed =>
          Untagged(tag_associations, tag_associations', tagOp'.file)]_vars

\* C8, amended: a confirmed _remove_file of f whose os.remove succeeds
\* leaves f in no datasheet list, changes no other entry of a datasheet
\* list and no node list, and deletes no tag; a _remove_file that is not
\* confirmed, or whose os.remove raises, leaves the registry as it was.
C8_RemovalUntagsWhenDeleted ==
    [][tagOp'.op = "remove_file" =>
          IF tagOp'.ok
          THEN /\ tagOp'.confirmed
               /\ tagOp'.file \notin disk'
               /\ Untagged(tag_associations, tag_associations', tagOp'.file)
          ELSE /\ tag_associations' = tag_associations
               /\ disk' = disk]_vars

\* C8 witness: n2_datasheet.XLS, the only datasheet of both tags, has been
\* removed: both tags are still there, with their nodes and with empty
\* datasheet lists.
C8_Witness ==
    /\ tagOp.op = "remove_file" /\ tagOp.ok /\ tagOp.file = sheet0
    /\ sheet0 \notin disk
    /\ Keys(tag_associations) = <<P1, Qq>>
    /\ NodesOf(Get(tag_associations, P1)) = <<n2>>
    /\ DatasheetsOf(Get(tag_associations, P1)) = <<>>
    /\ DatasheetsOf(Get(tag_associations, Qq)) = <<>>

\* A name that ends, in lower case, in .xlsx, .xls or .xlsm.
IsSpreadsheetName(f) ==
    LET low == py_lower(f)
        n == Len(f)
    IN  \/ n >= 4 /\ SubSeq(low, n - 3, n) = <<".", "x", "l", "s">>
        \/ n >= 5 /\ SubSeq(low, n - 4, n) \in
              {<<".", "x", "l", "s", "x">>, <<".", "x", "l", "s", "m">>}

Referenced(f) ==
    \E e \in Entries(tag_associations) : Contains(DatasheetsOf(e.v), f)

\* C9: after every refresh the assigned list and the unassigned list
\* partition the spreadsheet files on disk: assigned are those that some
\* tag references, unassigned those that no tag references, no file is in
\* both and none is listed twice.
C9_ListsPartitionSpreadsheets ==
    tagOp.refreshed =>
        /\ SeqToSet(assigned_files_listbox) =
              {f \in disk : IsSpreadsheetName(f) /\ Referenced(f)}
        /\ SeqToSet(unassigned_files_listbox) =
              {f \in disk : IsSpreadsheetName(f) /\ ~Referenced(f)}
        /\ SeqToSet(assigned_files_listbox) \cap SeqToSet(unassigned_files_listbox) = {}
        /\ NoRepeats(assigned_files_listbox \o unassigned_files_listbox)

\* C9 witness: _add_tag has refreshed the lists of a library that holds an
\* assigned spreadsheet, an unassigned one and a file that is no
\* spreadsheet.
C9_Witness ==
    /\ tagOp.op = "add_tag" /\ tagOp.refreshed
    /\ assigned_files_listbox # <<>>
    /\ unassigned_files_listbox # <<>>
    /\ logfile \in disk
    /\ ~Contains(assigned_files_listbox \o unassigned_files_listbox, logfile)

\* C10: the active node is unset or one node identifier; a tag selection
\* sets it to the tag's node when the tag has exactly one node and unsets
\* it when the tag has several or none; and only a tag selection or a
\* manual node selection changes it.
C10_ActiveNodeSingleOrUnset ==
    /\ [](/\ active_node \in Nodes \cup {NoStr}
          /\ tagOp.op = "select_tag" =>
               LET ns == NodesOf(GetOr(tag_associations, tagOp.tag, Dict(<<>>))) IN
               /\ Len(ns) = 1 => active_node = ns[1]
               /\ Len(ns) # 1 => active_node = NoStr)
    /\ [][active_node' # active_node =>
             tagOp'.op \in {"select_tag", "manual_select"}]_vars

\* C10 witness: with a node active, the selection of a tag that has no one
\* node has unset the active node.
C10_Witness ==
    /\ tagOp.op = "select_tag"
    /\ tagOp.node \in Nodes
    /\ Len(NodesOf(GetOr(tag_associations, tagOp.tag, Dict(<<>>)))) # 1
    /\ active_node = NoStr


\* The extension of a file name: the text from its last dot on.
ExtensionOf(name) ==
    LET dots == {i \in DOMAIN name : name[i] = "."} IN
    IF dots = {} THEN <<>>
    ELSE SubSeq(name, CHOOSE i \in dots : \A j \in dots : j <= i, Len(name))

\* Tag t of the registry lists node n and datasheet f.
TagLists(reg, t, n, f) ==
    /\ HasKey(reg, t)
    /\ Contains(NodesOf(Get(reg, t)), n)
    /\ Contains(DatasheetsOf(Get(reg, t)), f)

\* C17: an _add_tag that goes through with tag t, node n and a template
\* creates the file n + "_datasheet" + e, e the template's extension, in
\* the storage directory and leaves tag t listing n and that file; an
\* _add_tag that stops (empty tag, template without node, cancelled prompt,
\* refused overwrite, failed copy) leaves the registry as it was.
C17_AddTagCreatesDatasheet ==
    [][/\ (tagOp'.op = "add_tag" /\ tagOp'.ok /\ tagOp'.file # NoStr) =>
            /\ \E template \in SeqToSet(datasheet_combobox) :
                  tagOp'.file = tagOp'.node \o c__datasheet \o ExtensionOf(template)
            /\ tagOp'.file \in disk'
            /\ tagOp'.tag # <<>> /\ tagOp'.node # <<>>
            /\ TagLists(tag_associations', tagOp'.tag, tagOp'.node, tagOp'.file)
       /\ (tagOp'.op = "add_tag" /\ ~tagOp'.ok) =>
            /\ tag_associations' = tag_associations
            /\ disk' = disk]_vars

\* C17 witness: tag P1 was added for node n1 with the template T.XLS, and
\* n1_datasheet.XLS is in the directory and in the tag's list.
C17_Witness ==
    /\ tagOp.op = "add_tag" /\ tagOp.ok
    /\ tagOp.node = n1
    /\ tagOp.file = n1 \o c__datasheet \o <<".", "X", "L", "S">>
    /\ tagOp.file \in disk
    /\ TagLists(tag_associations, tagOp.tag, n1, tagOp.file)


(***************************************************************************)
(*                       CLAIMS ABOUT THE TREE                             *)
(***************************************************************************)

\* The items of t that are nodes: all but the Treeview's own root and the
\* inline rows.
TreeNodes(t) == {i \in DOMAIN t \ {NoItem} : ~Contains(t[i].tags, "inline_info")}

\* The children of a node that are nodes.
ChildNodes(t, i) == {c \in SeqToSet(t[i].children) : c \in TreeNodes(t)}

\* C11: in every tree reachable from the initial tree through add child,
\* bucket creation, rename and delete, the children of each node have only
\* the types that allowed_children lists for the node's type; an asset
\* node has no children.  (Inline rows are not counted as children here.)
C11_ChildrenWithinAllowedChildren ==
    \A i \in TreeNodes(tree) : \A c \in ChildNodes(tree, i) :
        Contains(allowed_children_get(get_node_type(tree, i)), get_node_type(tree, c))

\* C12: _create_child(parent, child_tag) is rejected and leaves the tree
\* unchanged whenever child_tag is not among the allowed children of the
\* parent's type.
C12_DisallowedChildRejected ==
    [][(/\ treeOp'.op = "create_child"
        /\ ~Contains(allowed_children_get(get_node_type(tree, treeOp'.iid)),
                     treeOp'.tag))
       => (treeOp'.how = "not_allowed" /\ tree' = tree)]_vars

\* The children of item i that carry the bucket tag b.
BucketsOfType(t, i, b) == {c \in SeqToSet(t[i].children) : Contains(t[c].tags, b)}

\* C13: _insert_bucket is idempotent: on every item of a reachable tree and
\* for every bucket tag, a second call returns the item the first call
\* returned and leaves the tree as the first call left it; and every item
\* has at most one child bucket of each bucket type.
C13_InsertBucketIdempotent ==
    /\ \A i \in DOMAIN tree \ {NoItem}, b \in BucketTags :
          LET first == insert_bucket(Tv(tree, last_iid, 0), i, pretty_type[b], b)
              second == insert_bucket(first, i, pretty_type[b], b)
          IN  /\ second.ret = first.ret
              /\ second.t = first.t
              /\ Cardinality(DOMAIN first.t) <= Cardinality(DOMAIN tree) + 1
    /\ \A i \in DOMAIN tree \ {NoItem}, b \in BucketTags :
          Cardinality(BucketsOfType(tree, i, b)) <= 1

\* C13 witness: "Add Units" on a plant, which got its Units bucket when it
\* was made: the plant still has the one Units bucket.
C13_Witness ==
    /\ treeOp.op = "add_child"
    /\ treeOp.how = "bucket"
    /\ treeOp.tag = "bucket_units"
    /\ get_node_type(tree, treeOp.iid) = "plant_node"
    /\ Cardinality(BucketsOfType(tree, treeOp.iid, "bucket_units")) = 1

RECURSIVE DocSize(_)
RECURSIVE DocSizes(_)
\* How many nodes a document has.
DocSize(doc) == 1 + DocSizes(doc.children)

DocSizes(docs) ==
    IF docs = <<>> THEN 0 ELSE DocSize(Head(docs)) + DocSizes(Tail(docs))

RECURSIVE DocHasInline(_)
DocHasInline(doc) ==
    \/ Contains(doc.tags, "inline_info")
    \/ \E k \in DOMAIN doc.children : DocHasInline(doc.children[k])

RECURSIVE DocAt(_, _)
\* The node of doc at a position: the path of child numbers from the top.
DocAt(doc, path) ==
    IF path = <<>> THEN doc
    ELSE IF Head(path) \in DOMAIN doc.children
         THEN DocAt(doc.children[Head(path)], Tail(path))
         ELSE NoDocument

\* The place of node i among the nodes of its parent.
Rank(t, i) ==
    LET sibs == t[t[i].parent].children
        at == CHOOSE k \in DOMAIN sibs : sibs[k] = i
    IN  Cardinality({k \in 1..at : sibs[k] \in TreeNodes(t)})

RECURSIVE PathOf(_, _, _)
\* The position of node i below root.
PathOf(t, root, i) ==
    IF i = root THEN <<>> ELSE Append(PathOf(t, root, t[i].parent), Rank(t, i))

RECURSIVE IsBelow(_, _, _)
\* Item i is iid or has iid among its ancestors.
IsBelow(t, i, iid) ==
    IF i = iid THEN TRUE
    ELSE IF i = NoItem THEN FALSE
    ELSE IsBelow(t, t[i].parent, iid)

RECURSIVE InlineAbove(_, _)
\* Item i is an inline row or stands below one.
InlineAbove(t, i) ==
    IF i = NoItem THEN FALSE
    ELSE Contains(t[i].tags, "inline_info") \/ InlineAbove(t, t[i].parent)

\* The nodes of the project: the items at and below project_root that are
\* no inline rows and stand below none.
ProjectNodes(t, root) ==
    {i \in DOMAIN t \ {NoItem} : IsBelow(t, i, root) /\ ~InlineAbove(t, i)}

\* The items that carry inline rows.
WithInlineRows(t) ==
    {i \in TreeNodes(t) : \E c \in SeqToSet(t[i].children) : c \notin TreeNodes(t)}

\* The document has no inline row, and every node of the project once, at
\* its position.
IsDocumentOf(doc, t, root) ==
    /\ ~IsNoDocument(doc)
    /\ ~DocHasInline(doc)
    /\ DocSize(doc) = Cardinality(ProjectNodes(t, root))
    /\ \A i \in ProjectNodes(t, root) :
          LET d == DocAt(doc, PathOf(t, root, i)) IN
          /\ ~IsNoDocument(d)
          /\ d.text = t[i].text /\ d.tags = t[i].tags /\ d.open = t[i].open

\* C14: the document _serialize_tree returns has no node tagged inline_info
\* at any depth, whatever inline rows the tree has, and has every other
\* node of the tree exactly once at its position; it is the document a
\* _save_project_folder writes to project.json.
C14_DocumentLeavesOutInlineRows ==
    /\ tree_exists(tree, project_root)
          => IsDocumentOf(serialize_tree(tree, project_root), tree, project_root)
    /\ (treeOp.op = "save" /\ treeOp.how = "saved")
          => IsDocumentOf(project_file.doc, tree, project_root)

\* C14 witness: a tree with inline rows under two nodes has been saved.
C14_Witness ==
    /\ treeOp.op = "save" /\ treeOp.how = "saved"
    /\ Cardinality(WithInlineRows(tree)) >= 2
    /\ DocSize(project_file.doc) = Cardinality(TreeNodes(tree))

\* C20: a confirmed _delete_item takes the selected item and the items
\* below it out of the tree and nothing else; every other item keeps its
\* parent, text, tags and open flag, and its children keep their order.
C20_DeleteRemovesOnlySubtree ==
    [][(treeOp'.op = "delete" /\ treeOp'.how = "deleted") =>
        LET gone == {i \in DOMAIN tree : IsBelow(tree, i, treeOp'.iid)} IN
        /\ DOMAIN tree' = DOMAIN tree \ gone
        /\ \A i \in DOMAIN tree' :
              /\ tree'[i].parent = tree[i].parent
              /\ tree'[i].text = tree[i].text
              /\ tree'[i].tags = tree[i].tags
              /\ tree'[i].open = tree[i].open
              /\ tree'[i].children =
                    SelectSeq(tree[i].children, LAMBDA c : c \notin gone)]_vars

\* C20 witness: an item with items below it has been deleted from under a
\* plant, whose three other buckets are still there.
C20_Witness ==
    /\ treeOp.op = "delete" /\ treeOp.how = "deleted"
    /\ treeOp.below >= 2
    /\ \E i \in TreeNodes(tree) :
          /\ get_node_type(tree, i) = "plant_node"
          /\ Cardinality(ChildNodes(tree, i)) = 3

\* The tree of a new project: Project with an empty Plants bucket.
IsDefaultTree(t, root) ==
    /\ tree_exists(t, root)
    /\ get_node_type(t, root) = "project_node"
    /\ Cardinality(ChildNodes(t, root)) = 1
    /\ \A b \in ChildNodes(t, root) :
          get_node_type(t, b) = "bucket_plants" /\ ChildNodes(t, b) = {}

\* C18: a malformed project.json is not fatal to _open_project_folder and
\* the tree loaded from it takes its default value, the tree of a new
\* project.  (The documents read at startup are those of C5.)
C18_MalformedProjectGivesDefaultTree ==
    (/\ treeOp.op = "open" /\ treeOp.how # "not_a_project"
     /\ project_file.kind = "text" /\ ~json_loads(project_file.text).ok)
        => IsDefaultTree(tree, project_root)


(***************************************************************************)
(*                   CLAIMS ABOUT THE FETCH MACHINE                        *)
(***************************************************************************)

\* What follows the last '#' or '/' of a URI; all of it when it has neither.
AfterLastSeparator(value) ==
    LET seps == {i \in DOMAIN value : value[i] \in {"#", "/"}} IN
    IF seps = {} THEN value
    ELSE SubSeq(value, (CHOOSE i \in seps : \A j \in seps : j <= i) + 1, Len(value))

\* C15: after a successful fetch fetched_nodes['all'] holds the local names
\* of the returned resources (what follows the last '#' or '/'), in
\* ascending order and without duplicates.
C15_FetchedNodesSortedLocalNames ==
    (fetchOp.op = "after_fetch_nodes" /\ ~fetchOp.res.exc) =>
        LET rows == fetchOp.res.rows
            names == fetched_nodes.all
        IN  /\ SeqToSet(names) = {AfterLastSeparator(rows[i]) : i \in DOMAIN rows}
            /\ \A i, j \in DOMAIN names : i < j => StrLess(names[i], names[j])

\* C15 witness: a fetch returned two resources with one local name, and
\* the list holds the name once.
C15_Witness ==
    /\ fetchOp.op = "after_fetch_nodes" /\ ~fetchOp.res.exc
    /\ Len(fetchOp.res.rows) = 2
    /\ Len(fetched_nodes.all) = 1

\* C16: when the work of a tracked node fetch raises, _after_fetch_nodes is
\* called with the exception, shows "Fetch Failed", sets the status line to
\* the failure message, stops the busy indicator and leaves fetched_nodes
\* as it was; no exception leaves the callback.
C16_FailedFetchIsReported ==
    [][(fetchOp'.op = "after_fetch_nodes" /\ fetchOp'.work = "raised") =>
        /\ fetchOp'.res.exc
        /\ fetchOp'.notice = "Fetch Failed"
        /\ status_lbl'.text = "Failed to fetch nodes."
        /\ ~progress'
        /\ fetched_nodes' = fetched_nodes
        /\ ~fetchOp'.escaped]_vars

\* C16 witness: a fetch failed after an earlier fetch had filled the list.
C16_Witness ==
    /\ fetchOp.op = "after_fetch_nodes" /\ fetchOp.work = "raised"
    /\ fetched_nodes.all # <<>>
    /\ status_lbl.text = "Failed to fetch nodes."

\* The message boxes that report a failure.
FailureNotices ==
    {"Missing URL", "Missing Data", "Invalid Prefix", "Connection Failed",
     "Fetch Failed", "SPARQL Error"}

\* C19: no failure of a network operation leaves its handler as an
\* exception; a callback called with an exception shows a message box; and
\* the busy indicator runs only while a tracked future is there to stop it.
C19_NoFailureEscapesUnreported ==
    /\ ~fetchOp.escaped
    /\ fetchOp.res.exc => fetchOp.notice \in FailureNotices
    /\ progress => calls # <<>>


(***************************************************************************)
(*                      CLAIMS ABOUT THE EDITOR                            *)
(***************************************************************************)

\* The step is the callback of a property job.
IsAfterProps == editorBudget' < editorBudget /\ editorOp'.op = "after_props"

\* The line(s) the callback of lines 1647-1654 inserts for the result res.
PropsPiece(res) ==
    IF res = <<>> THEN Piece("(No direct properties found)", <<>>)
    ELSE Piece("- {p}", res)

\* C21: the result of a tag's property job is written into the properties
\* panel whatever tag the editor shows when it arrives: the callback adds
\* the result's lines below what the panel holds, also when the tag of the
\* job is no longer the selected one, and leaves the tag panel as it is.
C21_StaleResultIsWritten ==
    [][IsAfterProps =>
          /\ properties_text_embed' =
                Append(properties_text_embed, PropsPiece(editorOp'.res))
          /\ UNCHANGED <<tag_text_embed, tag_selector_combobox>>]_vars

\* The properties of tag P1 stand in the panel that shows tag P2.
C21_Witness ==
    /\ editorOp.op = "after_props"
    /\ editorOp.arg = <<"P", "1">>
    /\ editorOp.res # <<>>
    /\ tag_selector_combobox.current = <<"P", "2">>
    /\ tag_text_embed = <<Piece("Tag: {tag_name}", <<<<"P", "2">>>>)>>
    /\ properties_text_embed =
          <<Piece("Associated Nodes: {node_list}", <<n1, n2>>),
            Piece("- {p}", editorOp.res)>>


\* The step is on_close, with Cancel as the answer to "Save Changes?".
IsCancelledClose ==
    /\ editorBudget' < editorBudget
    /\ editorOp'.op = "on_close" /\ editorOp'.how = "cancel"

\* C22: when the user answers Cancel to the save-changes prompt of
\* on_close the application stays open: the main window is not destroyed,
\* the worker pool is not shut down, stop_flag stays false and no state is
\* persisted.
C22_CancelKeepsApplicationOpen ==
    [][IsCancelledClose =>
          /\ ~destroyed' /\ ~shut' /\ ~stop_flag'
          /\ UNCHANGED <<tags_file, xl_app, current_xl_db>>]_vars

\* C23: at most one _poll_for_drop timer is pending at any time.
C23_AtMostOnePollTimer == poll_timers <= 1

\* What a drag holds: nothing when no drag is on, a value and its source
\* while one is.
DragStateConsistent ==
    /\ ~is_dragging <=> (drag_data = NoStr /\ drag_source_type = None)
    /\ is_dragging => /\ drag_data \notin {NoStr, <<>>}
                      /\ drag_source_type \in {"value", "unit"}

\* The editor step that was taken, by its record.
EditorStep(op, hows) ==
    /\ editorBudget' < editorBudget
    /\ editorOp'.op = op /\ editorOp'.how \in hows

C25_SerializeRebuildRoundTrip ==
    tree_exists(tree, project_root) =>
        LET d == serialize_tree(tree, project_root)
            rebuilt == rebuild_tree_from_serialized(Tv(tree, last_iid, 0),
                                                    project_root, d)
        IN  serialize_tree(rebuilt.t, rebuilt.ret) = d

\* C27: project_root is an item of the tree, and the top of the hierarchy.
C27_ProjectRootExists ==
    /\ tree_exists(tree, project_root)
    /\ tree[project_root].parent = NoItem

\* The tags of an item without the font tag of the buckets.
WithoutBold(tags) == SelectSeq(tags, LAMBDA x : x # "bucket_bold")

RECURSIVE IsTreeOf(_, _, _)
\* The item i of the tree and what stands below it are what the document
\* describes: text, tags (but for the font tag), open flag, and the
\* children in their order.
IsTreeOf(t, i, doc) ==
    /\ ~IsNoDocument(doc)
    /\ tree_exists(t, i)
    /\ t[i].text = doc.text /\ t[i].open = doc.open
    /\ WithoutBold(t[i].tags) = WithoutBold(doc.tags)
    /\ Len(t[i].children) = Len(doc.children)
    /\ \A k \in DOMAIN doc.children : IsTreeOf(t, t[i].children[k], doc.children[k])

\* C28: after _open_project_folder has opened a folder the tree is the
\* tree that the folder's project.json describes or the default tree
\* (Project with an empty Plants bucket): no node of the project that was
\* open before is left.
C28_OpenedTreeIsOfOpenedFolder ==
    (treeOp.op = "open" /\ treeOp.how # "not_a_project") =>
        \/ IsDefaultTree(tree, project_root)
        \/ /\ project_file.kind = "document"
           /\ IsTreeOf(tree, project_root, project_file.doc)


(***************************************************************************)
(*                 CLAIMS ABOUT THE PERSISTED REGISTRY                     *)
(***************************************************************************)

\* The step is an _add_tag whose dump of the tags file fails.
AddTagDumpFails ==
    \E entry \in TagEntries, node_sel \in Nodes \cup {<<>>},
       template_sel \in SeqToSet(datasheet_combobox) \cup {<<>>},
       accept \in BOOLEAN, overwrite \in BOOLEAN :
          add_tag(entry, node_sel, template_sel, accept, overwrite, FALSE)

\* C29: when an operation that changes the in-memory tag registry returns
\* (and the file system took its writes), the tags document stored at
\* tags_path equals the registry.
C29_TagsFileEqualsRegistry ==
    [][(tag_associations' # tag_associations /\ ~AddTagDumpFails) =>
          load_or_default(tags_file', NoRegistry).val = tag_associations']_vars


(***************************************************************************)
(*                  CLAIMS ABOUT THE CATEGORIZATION                        *)
(***************************************************************************)

\* The step is the callback of a categorization query.
IsCategorizeCb == fetchBudget' < fetchBudget /\ fetchOp'.op = "categorize_cb"

\* The tracked future whose callback the step ran.
DoneCall ==
    CHOOSE k \in DOMAIN calls :
        calls' = [i \in 1..(Len(calls) - 1) |-> IF i < k THEN calls[i] ELSE calls[i + 1]]

\* The futures of categorization inv that are still tracked.
PendingOf(cs, inv) == {k \in DOMAIN cs : cs[k].kind = "cat" /\ cs[k].inv = inv}

\* The list a query's result stands for: nothing for a failed query.
ListOf(res) ==
    IF IsException(res) THEN <<>>
    ELSE [i \in DOMAIN res.rows |-> AfterLastSeparator(res.rows[i])]

\* The keys of a results dict, and the list under a key.
ResultKeys(d) == {d[i].k : i \in DOMAIN d}
ResultOf(d, k) == (CHOOSE e \in SeqToSet(d) : e.k = k).v

Outstanding(j) ==
    \/ tag_jobs[j].st # "none" /\ tag_jobs[j].cb # "ran"
    \/ tag_jobs[j].nested = "pending"

TrackerNext ==
    \/ \E k \in UIKinds : UISubmit(k)
    \/ \E f \in FutIds : UITrack(f)
    \/ \E f \in FutIds : WorkerStart(f)
    \/ \E f \in FutIds : \E out \in WorkOutcomes(fut[f].kind) : WorkerFinish(f, out)
    \/ \E f \in FutIds : WorkerDone(f)
    \/ \E f \in FutIds : TagJobSubmit(f)
    \/ \E f \in FutIds : TagJobWait(f)
    \/ \E f \in FutIds : TagJobReturn(f)
    \/ UIBeginCallback
    \/ \E f \in FutIds : UIEndCallback(f)
    \/ \E u \in {"", "http://repo"} : SetRepoUrl(u)
    \/ \E res \in {"yes", "no", "cancel"}, save_ok \in BOOLEAN, dumps_ok \in BOOLEAN :
         on_close(res, save_ok, dumps_ok)

TagsNext ==
    \/ \E entry \in TagEntries, node_sel \in Nodes \cup {<<>>},
          template_sel \in SeqToSet(datasheet_combobox) \cup {<<>>},
          accept \in BOOLEAN, overwrite \in BOOLEAN, dumps_ok \in BOOLEAN :
            add_tag(entry, node_sel, template_sel, accept, overwrite, dumps_ok)
    \/ \E f \in SeqToSet(assigned_files_listbox) \cup SeqToSet(unassigned_files_listbox),
          confirm \in BOOLEAN, locked \in BOOLEAN :
            remove_file(f, confirm, locked)
    \/ \E fn \in OutsideFiles, overwrite \in BOOLEAN : import_datasheet_template(fn, overwrite)
    \/ \E fn \in OutsideFiles : ExternalCreate(fn)
    \/ \E fn \in disk : ExternalDelete(fn)
    \/ \E t \in SeqToSet(tag_selector_combobox.values) : on_tag_selected_in_editor_tab(t)
    \/ \E n \in Nodes : on_node_manual_select(n)
    \/ \E dumps_ok \in BOOLEAN : safe_save_all(dumps_ok)

\* Each specification starts the machine it runs in its initial states and
\* holds the other machines at rest.
AtRest == EditorStart /\ PoolStart

TrackerInit ==
    \E u \in {"", "http://repo"} :
        /\ TrackerStart(u) /\ StoreStart(Missing) /\ TagsStart(Missing)
        /\ TreeStart /\ FetchStart(NoNodes, DefaultPrefix) /\ AtRest

SpecTracker == TrackerInit /\ [][TrackerNext]_vars

StoreInit ==
    \E c \in {Missing} \cup {json_dumps(d) : d \in StoreDocs} :
        /\ StoreStart(c) /\ TrackerStart("") /\ TagsStart(Missing)
        /\ TreeStart /\ FetchStart(NoNodes, DefaultPrefix) /\ AtRest

SpecStore == StoreInit /\ [][StoreNext]_vars

TagsInit ==
    \E file0 \in TagFiles0 :
        /\ TagsStart(file0) /\ TrackerStart("") /\ StoreStart(Missing)
        /\ TreeStart /\ FetchStart(NoNodes, DefaultPrefix) /\ AtRest

SpecTags == TagsInit /\ [][TagsNext]_vars

\* The tree starts as _build_plant_hierarchy_tab leaves it; the node cache
\* is empty, or filled by an earlier fetch and categorization.
TreeInit ==
    \E fetched \in {NoNodes, SomeNodes}, u \in {"", "http://repo"} :
        /\ TreeStart /\ FetchStart(fetched, DefaultPrefix)
        /\ TrackerStart(u) /\ StoreStart(Missing) /\ TagsStart(Missing) /\ AtRest

\* The node cache starts empty; the settings of the last session give the
\* repository URL and the prefix.
FetchInit ==
    \E u \in {"", "http://repo"}, prefix \in Prefixes :
        /\ FetchStart(NoNodes, prefix) /\ TrackerStart(u)
        /\ StoreStart(Missing) /\ TagsStart(Missing) /\ TreeStart /\ AtRest

SpecFetch == FetchInit /\ [][FetchNext]_vars

SpecTree == TreeInit /\ [][TreeNext]_vars

SpecTreeCalls == TreeInit /\ [][TreeCallsNext]_vars

\* The node cache as a fetch and an earlier categorization left it.
FetchedNodes ==
    [all |-> <<<<"a">>, <<"b">>>>, equipment |-> <<<<"a">>>>,
     sub_equipment |-> <<>>, asset |-> <<<<"b">>>>]

\* The repository URL is the one the nodes were fetched from.
CategorizeInit ==
    /\ FetchStart(FetchedNodes, DefaultPrefix) /\ TrackerStart("http://repo")
    /\ StoreStart(Missing) /\ TagsStart(Missing) /\ TreeStart /\ AtRest

\* How a categorization query ends in these runs: it fails, it finds
\* nothing, or it finds one of two resources.
CategorizeOutcomes ==
    {Raised(Exc), Returned(Rows(<<>>)), Returned(Rows(<<<<"w", "/", "a">>>>)),
     Returned(Rows(<<<<"h", "/", "u", "#", "c", "/", "b">>>>))}

\* The categorizations of a session that has fetched its nodes.
CategorizeNext ==
    \/ categorize_nodes
    \/ \E k \in DOMAIN calls :
         \E out \in CategorizeOutcomes : call_done(k, out)
    \/ \E u \in {"", "http://repo"} : edit_repo_url(u)

SpecCategorize == CategorizeInit /\ [][CategorizeNext]_vars

\* The registry of the editor's runs: a tag with one node and a datasheet,
\* a tag with two nodes and a datasheet that has left the library, and a
\* tag with a datasheet and no node.
EditorDoc ==
    Dict(<<TagEntry(<<"P", "1">>, <<Str(n2)>>, <<Str(sheet0)>>),
           TagEntry(<<"P", "2">>, <<Str(n1), Str(n2)>>, <<Str(template0 \o <<"X">>)>>),
           TagEntry(<<"q", QUOTE>>, <<>>, <<Str(sheet0)>>)>>)

EditorInit ==
    \E u \in {"", "http://repo"} :
        /\ EditorStart /\ TagsStart(json_dumps(EditorDoc)) /\ TrackerStart(u)
        /\ StoreStart(Missing) /\ TreeStart /\ FetchStart(NoNodes, DefaultPrefix)
        /\ PoolStart

SpecEditor == EditorInit /\ [][EditorNext]_vars

PoolInit ==
    \E u \in {"", "http://repo"} :
        /\ PoolStart /\ TrackerStart(u) /\ StoreStart(Missing) /\ TagsStart(Missing)
        /\ TreeStart /\ FetchStart(NoNodes, DefaultPrefix) /\ EditorStart

SpecPool == PoolInit /\ [][PoolNext]_vars /\ PoolFairness

====
